---- MODULE Spec2Model ----
(***************************************************************************)
(* A model of the Effects Engine of NoviMor: the .cube LUT parser, the    *)
(* per-frame effects, the chain executors of the image engine             *)
(* (add_image_effects.py) and of the video engine (add_video_effects.py), *)
(* and the batch handlers that call them (handlers/*_effects.py).         *)
(***************************************************************************)
EXTENDS Integers, Sequences, FiniteSets, TLC

VARIABLES
    \* --- parse_cube_file -------------------------------------------------
    cube_file,        \* the lines of the file handed to parse_cube_file
    numpy_ragged_ok,  \* whether the numpy build turns ragged rows into an object array
    parse_pc,         \* "idle" | "start" | "returned" | "raised"
    parse_out,        \* what parse_cube_file produced
    \* --- apply_effects_in_sequence ---------------------------------------
    engine,           \* "image" (ImageEffectsEngine) | "video" (EffectsEngine)
    media,            \* the name of the input file
    img0,             \* the decoded input frame
    effects,          \* the chain handed to the engine
    idx,              \* position of the for loop in the chain (1-based)
    pc,               \* "idle" | "open" | "loop" | "save" | "done" | "raised"
    img,              \* the current frame / clip (img = ... rebinding)
    applied,          \* the entries dispatched to an effect function, in order
    warnings,         \* the warnings printed, in order
    exc,              \* the exception that left the engine ("none" if none)
    written,          \* whether output_path was written
    cast_mode,        \* how the build casts a negative float to uint8
    resize_interp_ok, \* whether the installed vfx.resize accepts interp=
    quality,          \* the quality argument of the invocation
    encoder,          \* the settings the output was encoded with
    \* --- process_and_confirm_effects / _image_effects -------------------
    handler,          \* "none" | "video" | "image"
    hpc,              \* "idle" | "start" | "loop" | "wait" | "confirm"
    final_files,      \* context.user_data['final_files']
    selected,         \* context.user_data['selected_effects' / 'selected_image_effects']
    work,             \* the list the handler's for loop iterates
    hi,               \* the handler loop's position in work (1-based)
    out_files,        \* effects_applied_files / new_final_files
    replies,          \* the failure messages sent, by file
    \* --- one call of an effect's frame function --------------------------
    fx_engine,        \* the engine the function belongs to
    fx_name,          \* the effect's registry name
    fx_level,         \* the level argument
    fx_pc,            \* "idle" | "call" | "attempts" | "returned"
    arr_in,           \* the pixels of the received array before the call
    arr_arg,          \* the pixels of the received array now
    arr_out,          \* the array the function is building / has returned
    glitch_n,         \* apply_glitch: the number of attempts drawn
    glitch_left,      \* apply_glitch: attempts still to make
    glitch_last,      \* apply_glitch: the draws and the frame of the last attempt
    \* --- the selection dialogue -----------------------------------------
    dlg_state,            \* the conversation state the last handler returned
    current_effect_choice, \* the effect whose level is being asked
    level_answer,         \* the last answer a level handler received and what it stored
    \* --- two concurrent calls of one engine object ----------------------
    conc_engine,      \* the class of the engine object
    registry,         \* self.effects_map of the object: the names it holds
    inv,              \* the locals of each call
    disk,             \* the file system: what each path decodes to
    \* --- one value through a per-pixel function --------------------------
    px_fn,            \* "none" | "film_grain" | "fade" | "apply_lut" | "interp"
    px_pc,            \* "idle" | "call" | "returned"
    px_arg,           \* the arguments and the random draw of the call
    px_out,           \* what the call returned
    \* --- two conversations with one bot ----------------------------------
    downloads,        \* the files of bot_data['downloads_path'] and who wrote each
    user_data,        \* context.user_data of each conversation
    media_counter     \* the module-level counter of handlers/media.py

parseVars == <<cube_file, numpy_ragged_ok, parse_pc, parse_out>>
engineVars == <<engine, media, img0, effects, idx, pc, img, applied, warnings, exc,
                written, cast_mode, resize_interp_ok, quality, encoder>>
handlerVars == <<handler, hpc, final_files, selected, work, hi, out_files, replies>>
frameVars == <<fx_engine, fx_name, fx_level, fx_pc, arr_in, arr_arg, arr_out,
               glitch_n, glitch_left, glitch_last>>
\* the variables outside the parser, the executor and the batch handlers
dialogVars == <<dlg_state, current_effect_choice, level_answer>>
concVars == <<conc_engine, registry, inv, disk>>
pointVars == <<px_fn, px_pc, px_arg, px_out>>
sessVars == <<downloads, user_data, media_counter>>
tailVars == <<pointVars, sessVars>>
restVars == <<frameVars, dialogVars, concVars, tailVars>>
vars == <<parseVars, engineVars, handlerVars, restVars>>

(***************************************************************************)
(* Bounds of the model.                                                    *)
(***************************************************************************)
MaxLines == 3     \* lines of a .cube file explored by SpecParse
MaxChain == 3     \* entries of a chain explored by SpecEngine
MaxW == 4        \* frame width in pixels
MaxH == 2        \* frame height in pixels
MaxFiles == 2     \* files of a batch

SeqsUpTo(S, n) == UNION {[1..k -> S] : k \in 0..n}

(***************************************************************************)
(* parse_cube_file.  A line is the sequence of its whitespace-separated    *)
(* tokens after strip(); a token is a string.  TLC cannot look inside a    *)
(* string, so the character tests of the code are tables over the tokens   *)
(* the model uses.                                                         *)
(***************************************************************************)

\* line.startswith('#'), decided by the first token
StartsWithHash(tok) == tok \in {"#", "#LUT_3D_SIZE"}

\* line.startswith('LUT_3D_SIZE'), decided by the first token
StartsWithSizeKey(tok) == tok \in {"LUT_3D_SIZE"}

\* the token consists of characters of [0-9eE.+-] only
FullNumberClass(tok) == tok \in {"0", "1", "2", "0.5", "1e"}

\* the token starts with a character of [0-9eE.+-]
PrefixNumberClass(tok) == tok \in {"0", "1", "2", "0.5", "1e", "2x"}

\* re.match(r'^[0-9eE.+-]+\s+[0-9eE.+-]+\s+[0-9eE.+-]+', line): a prefix match,
\* so the third token only has to start with a character of the class and
\* anything may follow it
MatchesRowRegex(line) ==
    /\ Len(line) >= 3
    /\ FullNumberClass(line[1])
    /\ FullNumberClass(line[2])
    /\ PrefixNumberClass(line[3])

\* int(tok): the value, or -1 where int() raises ValueError
PyInt(tok) ==
    CASE tok = "0" -> 0
      [] tok = "1" -> 1
      [] tok = "2" -> 2
      [] OTHER -> -1

IntRaises(tok) == tok \notin {"0", "1", "2"}

\* float(tok), in thousandths
PyFloat(tok) ==
    CASE tok = "0" -> 0
      [] tok = "1" -> 1000
      [] tok = "2" -> 2000
      [] tok = "0.5" -> 500
      [] OTHER -> 0

FloatRaises(tok) == tok \notin {"0", "1", "2", "0.5"}

\* [float(c) for c in line.split()]
RowFloats(line) == [i \in 1..Len(line) |-> PyFloat(line[i])]

RowRaises(line) == \E i \in 1..Len(line) : FloatRaises(line[i])

\* The for loop over the lines (from line i on), with lut_size and lut_data
\* so far.  It ends at the first conversion that raises.
RECURSIVE ParseLoop(_, _, _, _)
ParseLoop(lines, i, lut_size, lut_data) ==
    IF i > Len(lines)
    THEN [err |-> "none", lut_size |-> lut_size, lut_data |-> lut_data]
    ELSE LET line == lines[i] IN
         IF Len(line) = 0 \/ StartsWithHash(line[1])
         THEN ParseLoop(lines, i + 1, lut_size, lut_data)
         ELSE IF StartsWithSizeKey(line[1])
         THEN IF IntRaises(line[Len(line)])
              THEN [err |-> "ValueError: int", lut_size |-> lut_size,
                    lut_data |-> lut_data]
              ELSE ParseLoop(lines, i + 1, PyInt(line[Len(line)]), lut_data)
         ELSE IF MatchesRowRegex(line)
         THEN IF RowRaises(line)
              THEN [err |-> "ValueError: float", lut_size |-> lut_size,
                    lut_data |-> lut_data]
              ELSE ParseLoop(lines, i + 1, lut_size, Append(lut_data, RowFloats(line)))
         ELSE ParseLoop(lines, i + 1, lut_size, lut_data)

RECURSIVE Flatten(_)
Flatten(rows) == IF rows = <<>> THEN <<>> ELSE Head(rows) \o Flatten(Tail(rows))

\* The rows do not all have the same number of tokens.
Ragged(rows) == \E i, j \in 1..Len(rows) : Len(rows[i]) # Len(rows[j])

\* np.array(lut_data).reshape((lut_size, lut_size, lut_size, 3)) succeeds:
\* rows of one length make a 2-D array, which reshapes iff it holds 3 * N^3
\* numbers; ragged rows raise in np.array, or (older numpy builds) make a 1-D
\* object array of the rows, which reshapes iff there are 3 * N^3 rows.
ReshapeOk(lut_data, lut_size, ragged_ok) ==
    /\ lut_size > 0
    /\ IF Ragged(lut_data)
       THEN ragged_ok /\ Len(lut_data) = 3 * lut_size * lut_size * lut_size
       ELSE Len(Flatten(lut_data)) = 3 * lut_size * lut_size * lut_size

FormatError == "ValueError: Invalid or unsupported .cube file format."

NoTable == [ok |-> FALSE, err |-> "none", lut_size |-> 0, nrows |-> 0, table |-> <<>>]

\* A faulty variant of the check below: the size test is forgotten.
FormatCheckSizeOnlyRows(lut_size, lut_data) == lut_data = <<>>

\* if lut_size == 0 or not lut_data: raise ValueError(...)
FormatCheck(lut_size, lut_data) == lut_size = 0 \/ lut_data = <<>>

\* parse_cube_file(file_path) on a file with these lines: the table (the
\* numbers in file order, which is the row-major order of the reshape) and
\* lut_size, or the exception.
parse_cube_file(lines, ragged_ok) ==
    LET r == ParseLoop(lines, 1, 0, <<>>) IN
    IF r.err # "none"
    THEN [NoTable EXCEPT !.err = r.err]
    ELSE IF FormatCheck(r.lut_size, r.lut_data)
    THEN [NoTable EXCEPT !.err = FormatError]
    ELSE IF ~ReshapeOk(r.lut_data, r.lut_size, ragged_ok)
    THEN [NoTable EXCEPT !.err = "ValueError: reshape"]
    ELSE [ok |-> TRUE, err |-> "none", lut_size |-> r.lut_size,
          nrows |-> Len(r.lut_data),
          table |-> IF Ragged(r.lut_data) THEN <<>> ELSE Flatten(r.lut_data)]

(***************************************************************************)
(* The files SpecParse explores: every sequence of at most MaxLines lines  *)
(* of LinePool.                                                            *)
(***************************************************************************)
Row12 == <<"0", "0", "0", "1", "0", "0", "0", "1", "0", "1", "1", "0">>

LinePool ==
    { <<>>,                              \* a blank line
      <<"#LUT_3D_SIZE", "2">>,           \* comments holding a size and a row
      <<"#", "0", "0.5", "1">>,
      <<"TITLE", "x">>,                  \* a line that is none of the kinds
      <<"LUT_3D_SIZE", "0">>,
      <<"LUT_3D_SIZE", "1">>,
      <<"LUT_3D_SIZE", "2">>,
      <<"LUT_3D_SIZE", "x">>,            \* int() raises
      <<"0", "0.5", "1">>,               \* a data row
      <<"0", "1e", "1">>,                \* matches the regex, float() raises
      <<"0", "0.5", "2x">>,              \* matches the regex as a prefix
      <<"0", "0", "0", "1">>,            \* a row of four numbers
      Row12 }                            \* a row of twelve numbers

CubeFiles == SeqsUpTo(LinePool, MaxLines)

\* --- facts about a file, read off its lines ----------------------------
IsBlankOrComment(line) == Len(line) = 0 \/ StartsWithHash(line[1])

IsSizeLine(line) == ~IsBlankOrComment(line) /\ StartsWithSizeKey(line[1])

IsDataRow(line) == ~IsBlankOrComment(line) /\ ~IsSizeLine(line) /\ MatchesRowRegex(line)

SizeLines(lines) == {i \in 1..Len(lines) : IsSizeLine(lines[i])}

DataRows(lines) == {i \in 1..Len(lines) : IsDataRow(lines[i])}

LastSizeLine(lines) == CHOOSE i \in SizeLines(lines) : \A j \in SizeLines(lines) : j <= i

\* A size line or a data row whose conversion raises.
BadConversion(line) ==
    \/ IsSizeLine(line) /\ IntRaises(line[Len(line)])
    \/ IsDataRow(line) /\ RowRaises(line)

ParseIdle ==
    /\ cube_file = <<>>
    /\ numpy_ragged_ok = FALSE
    /\ parse_pc = "idle"
    /\ parse_out = NoTable

ParseReturn ==
    /\ parse_pc = "start"
    /\ parse_cube_file(cube_file, numpy_ragged_ok).ok
    /\ parse_out' = parse_cube_file(cube_file, numpy_ragged_ok)
    /\ parse_pc' = "returned"
    /\ UNCHANGED <<cube_file, numpy_ragged_ok>>

ParseRaise ==
    /\ parse_pc = "start"
    /\ ~parse_cube_file(cube_file, numpy_ragged_ok).ok
    /\ parse_out' = parse_cube_file(cube_file, numpy_ragged_ok)
    /\ parse_pc' = "raised"
    /\ UNCHANGED <<cube_file, numpy_ragged_ok>>

(***************************************************************************)
(* Frames.  A frame is [w, h, known, px]: px is the h rows of w pixels     *)
(* <<r, g, b>> (8-bit values) while every effect applied so far is one     *)
(* whose pixel arithmetic is modelled; after any other effect the pixel    *)
(* content is not tracked (known = FALSE, px = <<>>) and only the size is. *)
(* A video clip is represented by one sampled frame.                       *)
(***************************************************************************)
Palette == {<<0, 255, 7>>, <<200, 100, 50>>}

\* The rows of width w that change colour at most once: the first k pixels
\* of one colour of the palette, the others of the other colour.
StepRows(w) ==
    {[x \in 1..w |-> IF x <= k THEN a ELSE b] :
        k \in 0..(w - 1), a \in Palette, b \in Palette}

FramesOf(w, h) ==
    {[w |-> w, h |-> h, known |-> TRUE, px |-> p] : p \in [1..h -> StepRows(w)]}

AllFrames == UNION {FramesOf(w, h) : w \in 1..MaxW, h \in 1..MaxH}

\* One frame of a single colour for each of three sizes.
FlatFrame(w, h) ==
    [w |-> w, h |-> h, known |-> TRUE, px |-> [y \in 1..h |-> [x \in 1..w |-> <<200, 100, 50>>]]]

ShapeFrames == {FlatFrame(1, 1), FlatFrame(MaxW, 1), FlatFrame(MaxW - 1, MaxH)}

Opaque(w, h) == [w |-> w, h |-> h, known |-> FALSE, px |-> <<>>]

Shape(f) == <<f.w, f.h, 3>>

\* dict.get(key, default)
DictGet(map, key, default) == IF key \in DOMAIN map THEN map[key] ELSE default

\* The frame f with new pixel content.
WithPixels(f, px) == [f EXCEPT !.px = px]

(***************************************************************************)
(* The effects whose pixel arithmetic is in the repository.                *)
(***************************************************************************)

\* A faulty variant of the inversion: 256 - v, wrapped to 8 bits.
InvertOffByOne(v) == (256 - v) % 256

\* ImageOps.invert / vfx.invert_colors on one channel value
InvertValue(v) == 255 - v

apply_invert_colors(f) ==
    IF f.known
    THEN WithPixels(f, [y \in 1..f.h |-> [x \in 1..f.w |->
             << InvertValue(f.px[y][x][1]), InvertValue(f.px[y][x][2]),
                InvertValue(f.px[y][x][3]) >>]])
    ELSE f

chromatic_level_map == [low |-> 3, medium |-> 6, high |-> 10]

\* column x (1-based) of np.roll(channel, k, axis=1): the column that was k
\* to its left, wrapping around the row
RollSource(x, k, w) == ((x - 1 - k) % w) + 1

\* r_shifted = np.roll(r, -shift, axis=1); b_shifted = np.roll(b, shift, axis=1)
ChromaticFrame(f, shift) ==
    WithPixels(f, [y \in 1..f.h |-> [x \in 1..f.w |->
        << f.px[y][RollSource(x, 0 - shift, f.w)][1], f.px[y][x][2],
           f.px[y][RollSource(x, shift, f.w)][3] >>]])

apply_chromatic_aberration(f, level) ==
    IF f.known
    THEN ChromaticFrame(f, DictGet(chromatic_level_map, level, 6))
    ELSE f

\* strength, doubled: {'low': 0.5, 'medium': 1.0, 'high': 1.5}
vignette_level_map2 == [low |-> 1, medium |-> 2, high |-> 3]

\* float -> uint8 of the value num / den (den > 0): truncation toward zero;
\* for a negative value the C cast is undefined, and a build either wraps
\* the truncated integer modulo 256 or saturates to 0.
CastUint8(num, den, cast) ==
    IF num >= 0
    THEN (num \div den) % 256
    ELSE IF cast = "wrap"
         THEN (0 - ((0 - num) \div den)) % 256
         ELSE 0

\* vignette_mask[y][x] = 1 - radial_grad^2 * strength as the fraction
\* MaskNum / MaskDen, in exact arithmetic: with center (w/2, h/2),
\* radial_grad^2 = ((2x - w)^2 + (2y - h)^2) / (w^2 + h^2) for the 0-based
\* pixel (x, y).
MaskDen(w, h) == 2 * (w * w + h * h)

\* A faulty variant of the mask: the strength is ignored (mask = 1).
MaskNumNoStrength(x, y, w, h, s2) == MaskDen(w, h)

\* A faulty variant of the mask: the center is taken at the middle of the
\* pixel grid, ((w - 1) / 2, (h - 1) / 2).
MaskNumPixelCentered(x, y, w, h, s2) ==
    MaskDen(w, h) - s2 * ((2 * (x - 1) - (w - 1)) * (2 * (x - 1) - (w - 1))
                          + (2 * (y - 1) - (h - 1)) * (2 * (y - 1) - (h - 1)))

MaskNum(x, y, w, h, s2) ==
    MaskDen(w, h) - s2 * ((2 * (x - 1) - w) * (2 * (x - 1) - w)
                          + (2 * (y - 1) - h) * (2 * (y - 1) - h))

VignetteValue(v, x, y, w, h, s2, cast) ==
    CastUint8(v * MaskNum(x, y, w, h, s2), MaskDen(w, h), cast)

apply_vignette(f, level, cast) ==
    IF f.known
    THEN LET s2 == DictGet(vignette_level_map2, level, 2) IN
         WithPixels(f, [y \in 1..f.h |-> [x \in 1..f.w |->
             << VignetteValue(f.px[y][x][1], x, y, f.w, f.h, s2, cast),
                VignetteValue(f.px[y][x][2], x, y, f.w, f.h, s2, cast),
                VignetteValue(f.px[y][x][3], x, y, f.w, f.h, s2, cast) >>]])
    ELSE f

(***************************************************************************)
(* The registries (self.effects_map) and the chain entries.                *)
(***************************************************************************)
image_effects_map ==
    { "look-up table", "Black & White", "Color Saturation", "Contrast / Brightness",
      "Chromatic Aberration", "Pixelated Effect", "Invert Colors", "Film Grain",
      "Glitch", "Neon Glow", "Cartoon / Painterly", "Vignette", "Rotate" }

video_effects_map ==
    { "look-up table", "Ken Burns", "Black & White", "Fade In/Out", "Pixelated Effect",
      "Glitch", "Neon Glow", "VHS Look", "Color Saturation", "Contrast / Brightness",
      "Chromatic Aberration", "Invert Colors", "Speed Control", "Rotate", "Film Grain",
      "Rolling Shutter", "Cartoon / Painterly", "Vignette" }

effects_map(eng) == IF eng = "image" THEN image_effects_map ELSE video_effects_map

\* A chain entry: a bare name (str), a (name, param, ...) tuple, or a value
\* that is neither.
Str(name) == [form |-> "str", name |-> name, params |-> <<>>]

Tup(name, param) == [form |-> "tuple", name |-> name, params |-> <<param>>]

Other == [form |-> "other", name |-> "", params |-> <<>>]

Levels == {"low", "medium", "high"}

\* isinstance(effect, tuple/str) and effect_name in self.effects_map
Recognized(eng, e) == e.form \in {"str", "tuple"} /\ e.name \in effects_map(eng)

\* The effect functions that take no level: (img) or (clip) only.
NoLevel(eng) ==
    IF eng = "image" THEN {"Black & White", "Invert Colors"}
    ELSE {"Black & White", "Invert Colors", "VHS Look"}

\* The call self.effects_map[name](img, *params) does not fit the function's
\* signature (TypeError): apply_lut needs its cube_file_path, a function
\* without a level takes no parameter, apply_rolling_shutter takes level and
\* freq, every other function takes at most a level.
ArityError(eng, e) ==
    LET n == Len(e.params) IN
    CASE e.name = "look-up table" -> n # 1
      [] e.name \in NoLevel(eng) -> n # 0
      [] e.name = "Rolling Shutter" -> n > 2
      [] OTHER -> n > 1

\* The level an effect function sees: its default when the entry has none.
LevelOf(e) ==
    IF e.params # <<>> THEN e.params[1]
    ELSE IF e.name = "Rotate" THEN "high" ELSE "medium"

(***************************************************************************)
(* The .cube files on disk, by path.                                       *)
(***************************************************************************)
Row3(a, b, c) == <<a, b, c>>

GoodCube ==
    << <<"#", "0", "0.5", "1">>, <<"LUT_3D_SIZE", "2">>,
       Row3("0", "0", "0"), Row3("0", "0", "1"), Row3("0", "1", "0"), Row3("0", "1", "1"),
       Row3("1", "0", "0"), Row3("1", "0", "1"), Row3("1", "1", "0"), Row3("1", "1", "1") >>

cube_on_disk ==
    [p \in {"good.cube", "short.cube", "nosize.cube", "badtoken.cube"} |->
        CASE p = "good.cube" -> GoodCube
          [] p = "short.cube" -> << <<"LUT_3D_SIZE", "2">>, Row3("0", "0.5", "1") >>
          [] p = "nosize.cube" -> << Row3("0", "0.5", "1") >>
          [] OTHER -> << <<"LUT_3D_SIZE", "1">>, Row3("0", "1e", "1") >>]

LutPaths == DOMAIN cube_on_disk \cup {"missing.cube"}

\* lut_table, lut_size = self.parse_cube_file(cube_file_path): the exception
\* it raises ("none" if it returns); open() raises for a path that is not there.
LutError(path) ==
    IF path \notin DOMAIN cube_on_disk
    THEN "FileNotFoundError"
    ELSE parse_cube_file(cube_on_disk[path], FALSE).err

(***************************************************************************)
(* The size of the frame each effect returns.                              *)
(***************************************************************************)
CeilDiv(a, b) == 0 - ((0 - a) \div b)

\* cos and sin of the angle in millionths (15 and 45 degrees)
CosMicro(deg) == IF deg = 15 THEN 965926 ELSE 707107

SinMicro(deg) == IF deg = 15 THEN 258819 ELSE 707107

\* The extent of the rotated corners along one axis, as PIL computes the
\* expanded canvas: ceil(max) - floor(min) of c + (+/-)(a*cos + b*sin)/2,
\* where c = a/2 is the center along this axis.
RotatedExtent(a, b, deg) ==
    CeilDiv(a * 1000000 + a * CosMicro(deg) + b * SinMicro(deg), 2000000)
    - ((a * 1000000 - a * CosMicro(deg) - b * SinMicro(deg)) \div 2000000)

\* img.rotate(angle, expand=True) / clip.fx(vfx.rotate, angle): a quarter turn
\* transposes the frame, any other angle expands the canvas to the bounding
\* box of the rotated corners.
RotatedSize(w, h, deg) ==
    IF deg = 90 THEN <<h, w>>
    ELSE <<RotatedExtent(w, h, deg), RotatedExtent(h, w, deg)>>

\* {'low': 15, 'medium': 45, 'high': 90}; the video engine negates the angles,
\* which does not change the canvas.
rotate_level_map == [low |-> 15, medium |-> 45, high |-> 90]

apply_rotate(f, level) ==
    LET s == RotatedSize(f.w, f.h, DictGet(rotate_level_map, level, 90)) IN
    Opaque(s[1], s[2])

pixelated_level_map == [low |-> 95, medium |-> 85, high |-> 75]

\* The height of the downsampled image: int(pixel_size * h/w)
PixelatedSmallHeight(f, level) ==
    (DictGet(pixelated_level_map, level, 85) * f.h) \div f.w

\* A faulty variant that returns the downsampled image without resizing it back.
ImagePixelatedNoUpscale(f, level) ==
    Opaque(DictGet(pixelated_level_map, level, 85), PixelatedSmallHeight(f, level))

\* The image engine: img_small.resize(img.size, NEAREST) has the input's size.
image_apply_pixelated(f, level) == Opaque(f.w, f.h)

\* The video engine resizes to width pixel_width and back to the original
\* width; each resize derives the height from the width ratio and truncates it.
video_apply_pixelated(f, level) ==
    Opaque(f.w, (PixelatedSmallHeight(f, level) * f.w)
                 \div DictGet(pixelated_level_map, level, 85))

\* A resize to a height of 0 raises.
PixelatedRaises(eng, f, level) ==
    \/ PixelatedSmallHeight(f, level) = 0
    \/ eng = "video" /\ video_apply_pixelated(f, level).h = 0

\* The video engine passes interp='nearest' to vfx.resize: a TypeError when the
\* installed resize has no such parameter.
PixelatedTypeError(eng, interp_ok) == eng = "video" /\ ~interp_ok

ken_burns_level_map4 == [low |-> 4, medium |-> 5, high |-> 6]   \* zoom target * 4

\* The frame apply_ken_burns returns at the fraction tnum/8 of the clip:
\* zoomed to round(h * z) x round(w * z) with z = 1 + (target - 1) * t/duration,
\* then cropped to rows [crop_y_start, crop_y_start + h) and the same for the
\* columns.  z >= 1, so the crop is the original size.
KenBurnsZoomed(a, level, tnum) ==
    LET z32 == 32 + (DictGet(ken_burns_level_map4, level, 5) - 4) * tnum IN
    (2 * a * z32 + 32) \div 64

KenBurnsCrop(a, level, tnum) ==
    LET za == KenBurnsZoomed(a, level, tnum)
        start == (za - a) \div 2
    IN  IF start + a <= za THEN a ELSE za - start

apply_ken_burns(f, level) ==
    Opaque(KenBurnsCrop(f.w, level, 8), KenBurnsCrop(f.h, level, 8))

(***************************************************************************)
(* The level tables of the effect functions, in hundredths: level_map is   *)
(* the dict of the function, level_fallback the default of its             *)
(* level_map.get(level, default).                                          *)
(***************************************************************************)
Hundredths(a, b, c) == [low |-> a, medium |-> b, high |-> c]

\* The effects that take a level.
LeveledEffects(eng) == (effects_map(eng) \ NoLevel(eng)) \ {"look-up table"}

level_map(eng, name) ==
    CASE name = "Color Saturation" -> Hundredths(130, 170, 220)
      [] name = "Contrast / Brightness" ->
            IF eng = "image" THEN Hundredths(120, 150, 180) ELSE Hundredths(20, 60, 100)
      [] name = "Chromatic Aberration" -> [l \in Levels |-> 100 * chromatic_level_map[l]]
      [] name = "Pixelated Effect" -> [l \in Levels |-> 100 * pixelated_level_map[l]]
      [] name = "Film Grain" -> Hundredths(100, 150, 200)
      [] name = "Neon Glow" -> Hundredths(8000, 5000, 3000)
      [] name = "Cartoon / Painterly" -> Hundredths(500, 1500, 2500)
      [] name = "Vignette" -> [l \in Levels |-> 50 * vignette_level_map2[l]]
      [] name = "Glitch" ->
            IF eng = "image" THEN Hundredths(3000, 5000, 7000) ELSE Hundredths(10, 20, 30)
      [] name = "Rotate" ->
            IF eng = "image" THEN [l \in Levels |-> 100 * rotate_level_map[l]]
            ELSE [l \in Levels |-> 0 - 100 * rotate_level_map[l]]
      [] name = "Ken Burns" -> [l \in Levels |-> 25 * ken_burns_level_map4[l]]
      [] name = "Speed Control" -> Hundredths(125, 150, 200)
      [] name = "Rolling Shutter" -> Hundredths(500, 1200, 2000)
      [] name = "Fade In/Out" -> Hundredths(100, 150, 200)

level_fallback(eng, name) ==
    CASE name = "Color Saturation" -> 170
      [] name = "Contrast / Brightness" -> IF eng = "image" THEN 150 ELSE 60
      [] name = "Chromatic Aberration" -> 600
      [] name = "Pixelated Effect" -> 8500
      [] name = "Film Grain" -> 150
      [] name = "Neon Glow" -> 5000
      [] name = "Cartoon / Painterly" -> 1500
      [] name = "Vignette" -> 100
      [] name = "Glitch" -> IF eng = "image" THEN 5000 ELSE 20
      [] name = "Rotate" -> IF eng = "image" THEN 9000 ELSE 0 - 9000
      [] name = "Ken Burns" -> 125
      [] name = "Speed Control" -> 150
      [] name = "Rolling Shutter" -> 1200
      [] name = "Fade In/Out" -> 150

\* The parameter the effect function of a leveled entry works with.
EffectParam(eng, e) == DictGet(level_map(eng, e.name), LevelOf(e), level_fallback(eng, e.name))

(***************************************************************************)
(* The dispatch self.effects_map[name](img, *params).                      *)
(***************************************************************************)

\* The exception the call raises, "none" if it returns.
EffectError(eng, e, f) ==
    IF ArityError(eng, e) THEN "TypeError"
    ELSE IF e.name = "look-up table" THEN LutError(e.params[1])
    ELSE IF e.name = "Pixelated Effect" /\ PixelatedTypeError(eng, resize_interp_ok)
    THEN "TypeError"
    ELSE IF e.name = "Pixelated Effect" /\ PixelatedRaises(eng, f, LevelOf(e))
    THEN "ValueError: resize"
    ELSE "none"

\* The frame the call returns.  Every effect not listed keeps the size and
\* the channel count of its input; its pixel arithmetic is not modelled.
EffectResult(eng, e, f, cast) ==
    CASE e.name = "Invert Colors" -> apply_invert_colors(f)
      [] e.name = "Chromatic Aberration" -> apply_chromatic_aberration(f, LevelOf(e))
      [] e.name = "Vignette" -> apply_vignette(f, LevelOf(e), cast)
      [] e.name = "Rotate" -> apply_rotate(f, LevelOf(e))
      [] e.name = "Pixelated Effect" ->
            IF eng = "image" THEN image_apply_pixelated(f, LevelOf(e))
            ELSE video_apply_pixelated(f, LevelOf(e))
      [] e.name = "Ken Burns" -> apply_ken_burns(f, LevelOf(e))
      [] OTHER -> Opaque(f.w, f.h)

(***************************************************************************)
(* apply_effects_in_sequence, one step of its for loop at a time.          *)
(***************************************************************************)

\* A faulty variant of the iteration: the chain is walked from its end.
CurrentEntryReversed(effs, i) == effs[Len(effs) + 1 - i]

\* for effect in effects: the entry of the i-th iteration
CurrentEntry(effs, i) == effs[i]

\* img = self.effects_map[effect_name](img, *params): the effect is given the
\* current img, which is the previous effect's result
Dispatch(eng, e, cur, orig, cast) == EffectResult(eng, e, cur, cast)

\* What an entry that is not dispatched prints: the video engine prints a
\* warning in each else branch, the image engine has no else branch.
SkipWarnings(eng, e, i) ==
    IF eng = "image" THEN <<>>
    ELSE IF e.form = "other" THEN <<[at |-> i, kind |-> "invalid format"]>>
    ELSE <<[at |-> i, kind |-> "not found"]>>

\* The state of an engine that has been called with these arguments.
\* The quality arguments: 'draft', the default 'final', and another string.
Qualities == {"draft", "final", "preview"}

\* The image engine takes no quality.
QualitiesOf(eng) == IF eng = "image" THEN {"final"} ELSE Qualities

NoEncoder == [codec |-> "none", preset |-> "none", crf |-> 0]

\* A faulty variant: the quality is ignored by the encoder.
EncoderSettingsIgnoringQuality(eng, q) ==
    IF eng = "image" THEN [codec |-> "webp lossless", preset |-> "none", crf |-> 0]
    ELSE [codec |-> "libx264", preset |-> "slow", crf |-> 18]

\* The image engine saves lossless WEBP; the video engine writes libx264 with
\* preset 'ultrafast' and -crf 28 for quality 'draft', else 'slow' and -crf 18.
EncoderSettings(eng, q) ==
    IF eng = "image" THEN [codec |-> "webp lossless", preset |-> "none", crf |-> 0]
    ELSE IF q = "draft" THEN [codec |-> "libx264", preset |-> "ultrafast", crf |-> 28]
    ELSE [codec |-> "libx264", preset |-> "slow", crf |-> 18]

Invoked(eng, file, frame, chain) ==
    /\ engine = eng
    /\ media = file
    /\ img0 = frame
    /\ effects = chain
    /\ idx = 1
    /\ pc = "open"
    /\ img = frame
    /\ applied = <<>>
    /\ warnings = <<>>
    /\ exc = "none"
    /\ written = FALSE
    /\ encoder = NoEncoder

\* Image.open(image_path).convert('RGB') / mp.VideoFileClip(video_path)
Open ==
    /\ pc = "open"
    /\ pc' = "loop"
    /\ UNCHANGED <<engine, media, img0, effects, idx, img, applied, warnings, exc,
                   written, cast_mode, resize_interp_ok, quality, encoder>>

\* The input cannot be read or decoded: the exception leaves the engine.
OpenFail ==
    /\ pc = "open"
    /\ pc' = "raised"
    /\ exc' = "IOError: decode"
    /\ UNCHANGED <<engine, media, img0, effects, idx, img, applied, warnings,
                   written, cast_mode, resize_interp_ok, quality, encoder>>

\* An entry that is not a str or tuple naming a registered effect is passed over.
LoopSkip ==
    /\ pc = "loop"
    /\ idx <= Len(effects)
    /\ ~Recognized(engine, CurrentEntry(effects, idx))
    /\ warnings' = warnings \o SkipWarnings(engine, CurrentEntry(effects, idx), idx)
    /\ idx' = idx + 1
    /\ UNCHANGED <<engine, media, img0, effects, pc, img, applied, exc, written,
                   cast_mode, resize_interp_ok, quality, encoder>>

\* A registered effect is called and returns.
LoopApply ==
    /\ pc = "loop"
    /\ idx <= Len(effects)
    /\ Recognized(engine, CurrentEntry(effects, idx))
    /\ EffectError(engine, CurrentEntry(effects, idx), img) = "none"
    /\ img' = Dispatch(engine, CurrentEntry(effects, idx), img, img0, cast_mode)
    /\ applied' = Append(applied, CurrentEntry(effects, idx))
    /\ idx' = idx + 1
    /\ UNCHANGED <<engine, media, img0, effects, pc, warnings, exc, written, cast_mode,
                   resize_interp_ok, quality, encoder>>

\* A faulty variant in which the executor swallows the exception of an effect
\* and goes on with the next entry.
LoopRaiseSwallowed ==
    /\ pc = "loop"
    /\ idx <= Len(effects)
    /\ Recognized(engine, CurrentEntry(effects, idx))
    /\ EffectError(engine, CurrentEntry(effects, idx), img) # "none"
    /\ idx' = idx + 1
    /\ UNCHANGED <<engine, media, img0, effects, pc, img, applied, warnings, exc,
                   written, cast_mode, resize_interp_ok, quality, encoder>>

\* A registered effect is called and raises: nothing in the engine catches it.
LoopRaise ==
    /\ pc = "loop"
    /\ idx <= Len(effects)
    /\ Recognized(engine, CurrentEntry(effects, idx))
    /\ EffectError(engine, CurrentEntry(effects, idx), img) # "none"
    /\ exc' = EffectError(engine, CurrentEntry(effects, idx), img)
    /\ pc' = "raised"
    /\ UNCHANGED <<engine, media, img0, effects, idx, img, applied, warnings, written,
                   cast_mode, resize_interp_ok, quality, encoder>>

\* A faulty variant: the loop stops after three entries.
LoopEndCapped ==
    /\ pc = "loop"
    /\ idx > Len(effects) \/ idx > 3
    /\ pc' = "save"
    /\ UNCHANGED <<engine, media, img0, effects, idx, img, applied, warnings, exc,
                   written, cast_mode, resize_interp_ok, quality, encoder>>

\* The loop is over.
LoopEnd ==
    /\ pc = "loop"
    /\ idx > Len(effects)
    /\ pc' = "save"
    /\ UNCHANGED <<engine, media, img0, effects, idx, img, applied, warnings, exc,
                   written, cast_mode, resize_interp_ok, quality, encoder>>

\* img.save(output_path, ...) / clip.write_videofile(output_path, ...);
\* return output_path
Save ==
    /\ pc = "save"
    /\ encoder' = EncoderSettings(engine, quality)
    /\ written' = TRUE
    /\ pc' = "done"
    /\ UNCHANGED <<engine, media, img0, effects, idx, img, applied, warnings, exc,
                   cast_mode, resize_interp_ok, quality>>

\* A faulty variant: the encoder's error is caught and output_path returned.
SaveFailSwallowed ==
    /\ pc = "save"
    /\ encoder' = EncoderSettings(engine, quality)
    /\ written' \in BOOLEAN
    /\ exc' = "EncodeError"
    /\ pc' = "done"
    /\ UNCHANGED <<engine, media, img0, effects, idx, img, applied, warnings, cast_mode,
                   resize_interp_ok, quality>>

\* The encoder fails: the exception leaves the engine; a partial file may be
\* left at output_path.
SaveFail ==
    /\ pc = "save"
    /\ encoder' = EncoderSettings(engine, quality)
    /\ written' \in BOOLEAN
    /\ exc' = "EncodeError"
    /\ pc' = "raised"
    /\ UNCHANGED <<engine, media, img0, effects, idx, img, applied, warnings, cast_mode,
                   resize_interp_ok, quality>>

(***************************************************************************)
(* The chains SpecEngine explores.                                         *)
(***************************************************************************)
AllNames == image_effects_map \cup video_effects_map \cup {"Sepia"}

\* Every name, bare and with every level, and every LUT path: as chains of
\* one entry.
SingleEntries ==
    {Str(n) : n \in AllNames}
    \cup {Tup(n, l) : n \in AllNames \ {"look-up table"}, l \in Levels \cup {"extreme"}}
    \cup {Tup("look-up table", p) : p \in LutPaths}
    \cup {Other}

\* The entries of the longer chains.
EntryPool ==
    { Str("Invert Colors"), Tup("Chromatic Aberration", "low"), Tup("Rotate", "low"),
      Tup("Pixelated Effect", "medium"), Tup("look-up table", "good.cube"),
      Tup("look-up table", "short.cube"), Tup("Ken Burns", "high"), Str("Sepia"), Other }

\* The chains run on every frame of AllFrames.
FrameChains ==
    { <<Str("Invert Colors")>>, <<Str("Invert Colors"), Str("Invert Colors")>> }
    \cup {<<Tup("Chromatic Aberration", l)>> : l \in Levels}
    \cup {<<Str("Invert Colors"), Tup("Vignette", l)>> : l \in Levels}
    \cup {<<Tup("Vignette", l), Str("Invert Colors")>> : l \in Levels}

\* Chains longer than MaxChain.
LongChains ==
    { [k \in 1..(MaxChain + 2) |-> Str("Invert Colors")],
      [k \in 1..(MaxChain + 2) |->
          IF k % 2 = 1 THEN Tup("Chromatic Aberration", "low") ELSE Str("Invert Colors")],
      [k \in 1..(MaxChain + 1) |-> IF k = 2 THEN Str("Sepia") ELSE Str("Black & White")] }

MediaFiles == {"a.mp4", "b.jpg", "c.MOV", "d.png"}

\* is_video_file(path): path.lower().endswith(('.mp4', '.mov', '.avi', '.mkv'))
is_video_file(name) == name \in {"a.mp4", "c.MOV"}

(***************************************************************************)
(* One call of an effect's frame function: the array it receives, the      *)
(* array it returns, and the draws of apply_glitch.                        *)
(***************************************************************************)
\* random.random(), in hundredths: values of [0, 1) on both sides of every
\* threshold of the two level maps
DrawPool == {5, 15, 25, 45, 99}

\* frames whose rows all differ: row y changes colour after column y
StepFrame(w, h) ==
    [w |-> w, h |-> h, known |-> TRUE,
     px |-> [y \in 1..h |-> [x \in 1..w |->
                IF x <= y THEN <<0, 255, 7>> ELSE <<200, 100, 50>>]]]

GlitchFrames(eng) ==
    IF eng = "image"
    THEN {StepFrame(MaxW, 1)}
    ELSE {StepFrame(MaxW, 1), StepFrame(MaxW, MaxH), StepFrame(MaxW - 1, 1)}

NoAttempt ==
    [attempted |-> FALSE, r |-> 0, triggered |-> FALSE, y |-> 0, d |-> 0,
     before |-> Opaque(1, 1)]

FrameIdle ==
    /\ fx_engine = "none"
    /\ fx_name = "none"
    /\ fx_level = "medium"
    /\ fx_pc = "idle"
    /\ arr_in = Opaque(1, 1)
    /\ arr_arg = Opaque(1, 1)
    /\ arr_out = Opaque(1, 1)
    /\ glitch_n = 0
    /\ glitch_left = 0
    /\ glitch_last = NoAttempt

\* no level handler has run yet
NoAnswer == [asked |-> FALSE, effect |-> "none", text |-> "none", level |-> "none"]

DialogIdle ==
    /\ dlg_state = "none"
    /\ current_effect_choice = "none"
    /\ level_answer = NoAnswer

ConcIdle ==
    /\ conc_engine = "none"
    /\ registry = {}
    /\ inv = <<>>
    /\ disk = <<>>

PointIdle ==
    /\ px_fn = "none"
    /\ px_pc = "idle"
    /\ px_arg = <<>>
    /\ px_out = <<>>

SessIdle ==
    /\ downloads = {}
    /\ user_data = <<>>
    /\ media_counter = 0

TailIdle == PointIdle /\ SessIdle

RestIdle == FrameIdle /\ DialogIdle /\ ConcIdle /\ TailIdle

\* lines = np.random.randint(0, h, size=h//20): h//20 draws of a row, with
\* repetition, as the set of rows drawn (1-based)
VhsLines(h) ==
    {S \in SUBSET (1..h) : Cardinality(S) <= h \div 20 /\ (h \div 20 > 0 => S # {})}

\* vhs_effect(frame): frame[lines, :, :] //= 2, then the blue channel is
\* replaced by np.roll(b, 2, axis=1); both written into frame itself,
\* which is also the value returned.
vhs_effect(f, lines) ==
    IF f.known
    THEN LET dark == [y \in 1..f.h |-> [x \in 1..f.w |->
                         IF y \in lines
                         THEN << f.px[y][x][1] \div 2, f.px[y][x][2] \div 2,
                                 f.px[y][x][3] \div 2 >>
                         ELSE f.px[y][x]]]
         IN  WithPixels(f, [y \in 1..f.h |-> [x \in 1..f.w |->
                 << dark[y][x][1], dark[y][x][2],
                    dark[y][RollSource(x, 2, f.w)][3] >>]])
    ELSE f

\* The array a frame function returns. The functions whose arithmetic is
\* not followed return an array of the same shape and unknown content.
FrameResult(name, level, f, cast, lines) ==
    CASE name = "Chromatic Aberration" -> apply_chromatic_aberration(f, level)
      [] name = "Vignette" -> apply_vignette(f, level, cast)
      [] name = "VHS Look" -> vhs_effect(f, lines)
      [] OTHER -> Opaque(f.w, f.h)

\* The received array after the call. vhs_effect assigns into its
\* argument; every other function reads it into a copy (np.array(img),
\* get_frame(t).copy()) or builds its result with np.stack, np.zeros_like,
\* arithmetic or np.clip.
ArgAfter(name, f, lines) == IF name = "VHS Look" THEN vhs_effect(f, lines) ELSE f

\* The frames a call is explored on: every frame for the functions whose
\* arithmetic is followed, one frame per size for the others.
CallFrames(name) ==
    IF name \in {"Chromatic Aberration", "Vignette", "VHS Look"}
    THEN AllFrames
    ELSE ShapeFrames

\* Any frame function but apply_glitch, as one step.
FrameCall ==
    /\ fx_pc = "call"
    /\ fx_name # "Glitch"
    /\ \E lines \in VhsLines(arr_in.h) :
          /\ arr_out' = FrameResult(fx_name, fx_level, arr_in, cast_mode, lines)
          /\ arr_arg' = ArgAfter(fx_name, arr_in, lines)
    /\ fx_pc' = "returned"
    /\ UNCHANGED <<fx_engine, fx_name, fx_level, arr_in, glitch_n, glitch_left, glitch_last>>

\* probability = level_map.get(level, ...), in hundredths
GlitchProbability(eng, level) ==
    DictGet(level_map(eng, "Glitch"), level, level_fallback(eng, "Glitch"))

\* image: glitch_height = max(1, h // 20)
\* video: glitch_height = h // 20; if glitch_height == 0: glitch_height = 1
glitch_height(h) == IF h \div 20 = 0 THEN 1 ELSE h \div 20

\* random.randint(-w//4, w//4): both ends included, -w//4 rounds down
Displacements(w) == ((0 - w) \div 4)..(w \div 4)

\* The columns (1-based) the code sets to 0 after the roll:
\* strip[:, :displacement] = 0 when displacement > 0, otherwise
\* strip[:, displacement:] = 0, which for displacement = 0 is every column.
ZeroedColumns(d, w) ==
    IF d > 0
    THEN {x \in 1..w : x <= d}
    ELSE IF d = 0 THEN 1..w ELSE {x \in 1..w : x > w + d}

\* strip = np.roll(strip, displacement, axis=1), then the zeroing, written
\* back to frame[y:y+glitch_height] (y 0-based).
GlitchStrip(f, y, d) ==
    WithPixels(f, [yy \in 1..f.h |-> [x \in 1..f.w |->
        IF yy > y /\ yy <= y + glitch_height(f.h)
        THEN IF x \in ZeroedColumns(d, f.w)
             THEN <<0, 0, 0>>
             ELSE f.px[yy][RollSource(x, d, f.w)]
        ELSE f.px[yy][x]]])

\* apply_glitch up to its loop: frame = np.array(img) for the image engine,
\* frame = get_frame(t).copy() for the video engine, which makes one
\* attempt per frame; the image engine draws random.randint(1, 5) attempts.
GlitchBegin ==
    /\ fx_pc = "call"
    /\ fx_name = "Glitch"
    /\ arr_out' = arr_in
    /\ glitch_n' \in (IF fx_engine = "image" THEN 1..5 ELSE {1})
    /\ glitch_left' = glitch_n'
    /\ fx_pc' = "attempts"
    /\ UNCHANGED <<fx_engine, fx_name, fx_level, arr_in, arr_arg, glitch_last>>

\* An attempt whose draw passes: if random.random() < probability
GlitchAttemptTriggered ==
    /\ fx_pc = "attempts"
    /\ glitch_left > 0
    /\ \E r \in DrawPool, y \in 0..(arr_out.h - glitch_height(arr_out.h)),
          d \in Displacements(arr_out.w) :
          /\ r < GlitchProbability(fx_engine, fx_level)
          /\ arr_out' = GlitchStrip(arr_out, y, d)
          /\ glitch_last' = [attempted |-> TRUE, r |-> r, triggered |-> TRUE,
                             y |-> y, d |-> d, before |-> arr_out]
    /\ glitch_left' = glitch_left - 1
    /\ UNCHANGED <<fx_engine, fx_name, fx_level, fx_pc, arr_in, arr_arg, glitch_n>>

\* An attempt whose draw does not pass
GlitchAttemptSkipped ==
    /\ fx_pc = "attempts"
    /\ glitch_left > 0
    /\ \E r \in DrawPool :
          /\ ~(r < GlitchProbability(fx_engine, fx_level))
          /\ glitch_last' = [attempted |-> TRUE, r |-> r, triggered |-> FALSE,
                             y |-> 0, d |-> 0, before |-> arr_out]
    /\ glitch_left' = glitch_left - 1
    /\ UNCHANGED <<fx_engine, fx_name, fx_level, fx_pc, arr_in, arr_arg, arr_out, glitch_n>>

\* return Image.fromarray(frame) / return frame.astype('uint8')
GlitchReturn ==
    /\ fx_pc = "attempts"
    /\ glitch_left = 0
    /\ fx_pc' = "returned"
    /\ UNCHANGED <<fx_engine, fx_name, fx_level, arr_in, arr_arg, arr_out,
                   glitch_n, glitch_left, glitch_last>>

HandlerIdle ==
    /\ handler = "none"
    /\ hpc = "idle"
    /\ final_files = <<>>
    /\ selected = <<>>
    /\ work = <<>>
    /\ hi = 0
    /\ out_files = <<>>
    /\ replies = <<>>

\* The builds of vfx.resize a chain can tell apart: only the video engine's
\* Pixelated Effect passes interp=.
ResizeBuilds(eng, chain) ==
    IF eng = "video" /\ \E k \in 1..Len(chain) : chain[k].name = "Pixelated Effect"
    THEN BOOLEAN
    ELSE {TRUE}

InitEngine ==
    /\ ParseIdle
    /\ HandlerIdle
    /\ RestIdle
    /\ \E eng \in {"image", "video"} :
          \/ /\ \E chain \in SeqsUpTo(EntryPool, MaxChain), f \in ShapeFrames :
                   /\ Invoked(eng, IF eng = "image" THEN "b.jpg" ELSE "a.mp4", f, chain)
                   /\ resize_interp_ok \in ResizeBuilds(eng, chain)
             /\ cast_mode = "wrap"              \* no entry of EntryPool casts
             /\ quality = "final"
          \/ /\ \E e \in SingleEntries, f \in ShapeFrames :
                   /\ Invoked(eng, IF eng = "image" THEN "b.jpg" ELSE "a.mp4", f, <<e>>)
                   /\ resize_interp_ok \in ResizeBuilds(eng, <<e>>)
             /\ cast_mode \in {"wrap", "saturate"}
             /\ quality \in QualitiesOf(eng)
          \/ /\ \E chain \in FrameChains, f \in AllFrames :
                   Invoked(eng, IF eng = "image" THEN "b.jpg" ELSE "a.mp4", f, chain)
             /\ cast_mode \in {"wrap", "saturate"}
             /\ resize_interp_ok = TRUE         \* no chain of FrameChains resizes
             /\ quality = "final"
          \/ /\ \E chain \in LongChains, f \in ShapeFrames :
                   Invoked(eng, IF eng = "image" THEN "b.jpg" ELSE "a.mp4", f, chain)
             /\ cast_mode = "wrap"              \* no chain of LongChains casts
             /\ resize_interp_ok = TRUE         \* or resizes
             /\ quality \in QualitiesOf(eng)

NextEngine ==
    \/ Open /\ UNCHANGED <<parseVars, handlerVars, restVars>>
    \/ OpenFail /\ UNCHANGED <<parseVars, handlerVars, restVars>>
    \/ LoopSkip /\ UNCHANGED <<parseVars, handlerVars, restVars>>
    \/ LoopApply /\ UNCHANGED <<parseVars, handlerVars, restVars>>
    \/ LoopRaise /\ UNCHANGED <<parseVars, handlerVars, restVars>>
    \/ LoopEnd /\ UNCHANGED <<parseVars, handlerVars, restVars>>
    \/ Save /\ UNCHANGED <<parseVars, handlerVars, restVars>>
    \/ SaveFail /\ UNCHANGED <<parseVars, handlerVars, restVars>>

SpecEngine == InitEngine /\ [][NextEngine]_vars

NextParse ==
    \/ ParseReturn /\ UNCHANGED <<engineVars, handlerVars, restVars>>
    \/ ParseRaise /\ UNCHANGED <<engineVars, handlerVars, restVars>>

InitParse ==
    /\ cube_file \in CubeFiles
    /\ numpy_ragged_ok \in BOOLEAN
    /\ parse_pc = "start"
    /\ parse_out = NoTable
    /\ engine = "image"
    /\ media = "b.jpg"
    /\ img0 = FlatFrame(1, 1)
    /\ effects = <<>>
    /\ idx = 0
    /\ pc = "idle"
    /\ img = FlatFrame(1, 1)
    /\ applied = <<>>
    /\ warnings = <<>>
    /\ exc = "none"
    /\ written = FALSE
    /\ cast_mode = "wrap"
    /\ resize_interp_ok = TRUE
    /\ quality = "final"
    /\ encoder = NoEncoder
    /\ handler = "none"
    /\ hpc = "idle"
    /\ final_files = <<>>
    /\ selected = <<>>
    /\ work = <<>>
    /\ hi = 0
    /\ out_files = <<>>
    /\ replies = <<>>
    /\ RestIdle

SpecParse == InitParse /\ [][NextParse]_vars

(***************************************************************************)
(* The batch handlers: process_and_confirm_effects (video) and             *)
(* process_and_confirm_image_effects (image).  Each iterates the files of  *)
(* the batch and calls the engine on a worker thread, awaiting its result. *)
(***************************************************************************)

\* A path of the result list: a file of the batch as it was (effects = -1), or
\* the engine's output f"effects_{i}_{basename}" for the file.
OrigPath(name) == [effects |-> -1, name |-> name]

OutPath(i, name) == [effects |-> i, name |-> name]

video_files(files) == SelectSeq(files, is_video_file)

image_files(files) == SelectSeq(files, LAMBDA f : ~is_video_file(f))

\* The selections the handlers are run with.  choose_effects appends any text
\* that is not a parameterized effect, so a selection can hold a name that is
\* not in the engine's table.
SelectionPool ==
    { <<Str("Invert Colors")>>,
      <<Tup("Vignette", "high"), Tup("look-up table", "short.cube")>>,
      <<Tup("Pixelated Effect", "high")>>,
      <<Tup("look-up table", "good.cube"), Tup("Chromatic Aberration", "low")>>,
      <<Str("Sepia"), Str("Invert Colors")>> }

\* The frame the engine decodes from a file of the batch.
DecodedFrame(name) == FlatFrame(2, 1)

InitBatch ==
    /\ ParseIdle
    /\ RestIdle
    /\ handler \in {"video", "image"}
    /\ hpc = "start"
    /\ final_files \in SeqsUpTo(MediaFiles, MaxFiles)
    /\ selected \in SelectionPool
    /\ work = <<>>
    /\ hi = 0
    /\ out_files = <<>>
    /\ replies = <<>>
    /\ engine = handler
    /\ media = "b.jpg"
    /\ img0 = FlatFrame(1, 1)
    /\ effects = <<>>
    /\ idx = 0
    /\ pc = "idle"
    /\ img = FlatFrame(1, 1)
    /\ applied = <<>>
    /\ warnings = <<>>
    /\ exc = "none"
    /\ written = FALSE
    /\ cast_mode \in {"wrap", "saturate"}
    /\ resize_interp_ok \in BOOLEAN
    /\ quality \in QualitiesOf(handler) \ {"preview"}   \* handle_render_quality
    /\ encoder = NoEncoder

\* process_and_confirm_effects up to its loop: effects_applied_files = []
BeginVideo ==
    /\ handler = "video"
    /\ hpc = "start"
    /\ work' = final_files
    /\ out_files' = <<>>
    /\ hi' = 1
    /\ hpc' = "loop"
    /\ UNCHANGED <<handler, final_files, selected, replies>>

\* process_and_confirm_image_effects up to its loop: the loop runs over the
\* images, and new_final_files starts as the videos of the batch
BeginImage ==
    /\ handler = "image"
    /\ hpc = "start"
    /\ work' = image_files(final_files)
    /\ out_files' = [k \in 1..Len(video_files(final_files)) |->
                        OrigPath(video_files(final_files)[k])]
    /\ hi' = 1
    /\ hpc' = "loop"
    /\ UNCHANGED <<handler, final_files, selected, replies>>

\* The video handler's else branch: a file that is not a video is kept.
PassThrough ==
    /\ handler = "video"
    /\ hpc = "loop"
    /\ hi <= Len(work)
    /\ ~is_video_file(work[hi])
    /\ out_files' = Append(out_files, OrigPath(work[hi]))
    /\ hi' = hi + 1
    /\ UNCHANGED <<handler, hpc, final_files, selected, work, replies>>

\* await asyncio.to_thread(engine.apply_effects_in_sequence, ...)
Invoke ==
    /\ hpc = "loop"
    /\ hi <= Len(work)
    /\ handler = "image" \/ is_video_file(work[hi])
    /\ hpc' = "wait"
    /\ engine' = handler
    /\ media' = work[hi]
    /\ img0' = DecodedFrame(work[hi])
    /\ effects' = selected
    /\ idx' = 1
    /\ pc' = "open"
    /\ img' = DecodedFrame(work[hi])
    /\ applied' = <<>>
    /\ warnings' = <<>>
    /\ exc' = "none"
    /\ written' = FALSE
    /\ encoder' = NoEncoder
    /\ UNCHANGED <<handler, final_files, selected, work, hi, out_files, replies, cast_mode,
                   resize_interp_ok, quality>>

\* The engine returned output_path: it is appended.
CollectReturn ==
    /\ hpc = "wait"
    /\ pc = "done"
    /\ out_files' = Append(out_files, OutPath(hi - 1, work[hi]))
    /\ hi' = hi + 1
    /\ hpc' = "loop"
    /\ pc' = "idle"
    /\ UNCHANGED <<handler, final_files, selected, work, replies>>
    /\ UNCHANGED <<engine, media, img0, effects, idx, img, applied, warnings, exc,
                   written, cast_mode, resize_interp_ok, quality, encoder>>

\* A faulty variant of the except branch: the exception ends the loop.
CollectExceptionAborts ==
    /\ hpc = "wait"
    /\ pc = "raised"
    /\ hpc' = "confirm"
    /\ pc' = "idle"
    /\ UNCHANGED <<handler, final_files, selected, work, hi, out_files, replies>>
    /\ UNCHANGED <<engine, media, img0, effects, idx, img, applied, warnings, exc,
                   written, cast_mode, resize_interp_ok, quality, encoder>>

\* except Exception: the failure is reported for the file and the original
\* path is appended.  The reply_text call is taken to deliver its message.
CollectException ==
    /\ hpc = "wait"
    /\ pc = "raised"
    /\ replies' = Append(replies, work[hi])
    /\ out_files' = Append(out_files, OrigPath(work[hi]))
    /\ hi' = hi + 1
    /\ hpc' = "loop"
    /\ pc' = "idle"
    /\ UNCHANGED <<handler, final_files, selected, work>>
    /\ UNCHANGED <<engine, media, img0, effects, idx, img, applied, warnings, exc,
                   written, cast_mode, resize_interp_ok, quality, encoder>>

\* After the loop: context.user_data['final_files_with_effects'] = the list
Finish ==
    /\ hpc = "loop"
    /\ hi > Len(work)
    /\ hpc' = "confirm"
    /\ UNCHANGED <<handler, final_files, selected, work, hi, out_files, replies>>

NextBatch ==
    \/ BeginVideo /\ UNCHANGED <<parseVars, engineVars, restVars>>
    \/ BeginImage /\ UNCHANGED <<parseVars, engineVars, restVars>>
    \/ PassThrough /\ UNCHANGED <<parseVars, engineVars, restVars>>
    \/ Invoke /\ UNCHANGED <<parseVars, restVars>>
    \/ CollectReturn /\ UNCHANGED <<parseVars, restVars>>
    \/ CollectException /\ UNCHANGED <<parseVars, restVars>>
    \/ Finish /\ UNCHANGED <<parseVars, engineVars, restVars>>
    \/ Open /\ UNCHANGED <<parseVars, handlerVars, restVars>>
    \/ OpenFail /\ UNCHANGED <<parseVars, handlerVars, restVars>>
    \/ LoopSkip /\ UNCHANGED <<parseVars, handlerVars, restVars>>
    \/ LoopApply /\ UNCHANGED <<parseVars, handlerVars, restVars>>
    \/ LoopRaise /\ UNCHANGED <<parseVars, handlerVars, restVars>>
    \/ LoopEnd /\ UNCHANGED <<parseVars, handlerVars, restVars>>
    \/ Save /\ UNCHANGED <<parseVars, handlerVars, restVars>>
    \/ SaveFail /\ UNCHANGED <<parseVars, handlerVars, restVars>>

SpecBatch == InitBatch /\ [][NextBatch]_vars

(***************************************************************************)
(* SpecFrame: one frame function called on one array.                      *)
(***************************************************************************)
InitFrame ==
    /\ ParseIdle
    /\ HandlerIdle
    /\ engine = "image"
    /\ media = "b.jpg"
    /\ img0 = FlatFrame(1, 1)
    /\ effects = <<>>
    /\ idx = 0
    /\ pc = "idle"
    /\ img = FlatFrame(1, 1)
    /\ applied = <<>>
    /\ warnings = <<>>
    /\ exc = "none"
    /\ written = FALSE
    /\ cast_mode \in {"wrap", "saturate"}
    /\ resize_interp_ok = TRUE
    /\ quality = "final"
    /\ encoder = NoEncoder
    /\ fx_engine \in {"image", "video"}
    /\ fx_name \in effects_map(fx_engine) \ {"look-up table"}
    /\ fx_level \in (IF fx_name \in NoLevel(fx_engine) THEN {"medium"} ELSE Levels)
    /\ fx_pc = "call"
    /\ arr_in \in (IF fx_name = "Glitch" THEN GlitchFrames(fx_engine) ELSE CallFrames(fx_name))
    /\ arr_arg = arr_in
    /\ arr_out = Opaque(1, 1)
    /\ glitch_n = 0
    /\ glitch_left = 0
    /\ glitch_last = NoAttempt
    /\ DialogIdle
    /\ ConcIdle
    /\ TailIdle

NextFrame ==
    \/ FrameCall /\ UNCHANGED <<parseVars, engineVars, handlerVars, dialogVars, concVars, tailVars>>
    \/ GlitchBegin /\ UNCHANGED <<parseVars, engineVars, handlerVars, dialogVars, concVars, tailVars>>
    \/ GlitchAttemptTriggered /\ UNCHANGED <<parseVars, engineVars, handlerVars, dialogVars, concVars, tailVars>>
    \/ GlitchAttemptSkipped /\ UNCHANGED <<parseVars, engineVars, handlerVars, dialogVars, concVars, tailVars>>
    \/ GlitchReturn /\ UNCHANGED <<parseVars, engineVars, handlerVars, dialogVars, concVars, tailVars>>

SpecFrame == InitFrame /\ [][NextFrame]_vars

(***************************************************************************)
(* The selection dialogue (handlers/video_effects.py and                   *)
(* handlers/image_effects.py): the handlers that write selected_effects /  *)
(* selected_image_effects, up to the call of process_and_confirm_*.        *)
(***************************************************************************)
\* parameterized_effects, restricted to the effects the dialogue is explored
\* with; the three are keys of the table of both handlers
parameterized_effects(h) == {"look-up table", "Vignette", "Rotate"}

\* The texts sent in CHOOSE_EFFECTS that are not a parameterized effect: two
\* buttons of the menu and one text that is no effect of either engine.
BareChoices == {"Invert Colors", "Black & White", "Sepia"}

\* the texts the level states accept, for the effects explored
LevelChoices(name) == IF name = "Rotate" THEN {"15°", "90°"} ELSE {"Low", "High"}

\* choice.lower()
Lower(text) == CASE text = "Low" -> "low" [] text = "High" -> "high" [] OTHER -> text

\* create_level_setter's option_map and default_value for an effect
option_map(name) ==
    IF name = "Rotate"
    THEN [t \in {"15°", "45°", "90°"} |->
             CASE t = "15°" -> "low" [] t = "45°" -> "medium" [] OTHER -> "high"]
    ELSE [t \in {"Low", "Medium", "High"} |->
             CASE t = "Low" -> "low" [] t = "Medium" -> "medium" [] OTHER -> "high"]

default_value(name) == IF name = "Rotate" THEN "90°" ELSE "medium"

\* set_image_effect_level's level_map; None is "none"
image_level_map ==
    [t \in {"low", "medium", "high", "15°", "45°", "90°"} |->
        CASE t \in {"low", "15°"} -> "low"
          [] t \in {"medium", "45°"} -> "medium"
          [] OTHER -> "high"]

\* The level a level handler stores for the text it received.
StoredLevel(h, name, text) ==
    IF h = "video"
    THEN DictGet(option_map(name), Lower(text), default_value(name))
    ELSE DictGet(image_level_map, Lower(text), "none")

\* [eff for eff in selected if not (isinstance(eff, tuple) and eff[0] == name)]
WithoutTuple(sel, name) ==
    SelectSeq(sel, LAMBDA e : ~(e.form = "tuple" /\ e.name = name))

\* [eff for eff in selected if not (eff == choice or (tuple and eff[0] == choice))]
WithoutChoice(sel, choice) == SelectSeq(sel, LAMBDA e : e.name # choice)

HasName(sel, name) == \E k \in 1..Len(sel) : sel[k].name = name

\* The tail of a level or LUT handler: the entry replaces the tuple of the
\* same effect and is stored if fewer than 3 entries remain.
Stored(sel, e) ==
    IF Len(WithoutTuple(sel, e.name)) < 3
    THEN Append(WithoutTuple(sel, e.name), e)
    ELSE sel

\* ... and the state it returns.
StateAfterAdd(sel, e) ==
    IF Len(WithoutTuple(sel, e.name)) < 3 /\ Len(WithoutTuple(sel, e.name)) + 1 = 3
    THEN "POST_MAX_EFFECTS_CHOICE"
    ELSE "CHOOSE_EFFECTS"

\* _ask_render_quality for the video handler; the image handler calls
\* process_and_confirm_image_effects at once.
StartProcessing ==
    IF handler = "video"
    THEN /\ dlg_state' = "ASK_RENDER_QUALITY"
         /\ hpc' = hpc
    ELSE /\ dlg_state' = "PROCESSING"
         /\ hpc' = "start"

\* choose_effects / choose_image_effects, choice == 'Reset'
ChooseReset ==
    /\ dlg_state = "CHOOSE_EFFECTS"
    /\ selected' = <<>>
    /\ UNCHANGED <<dlg_state, current_effect_choice, handler, hpc, final_files, work, hi,
                   out_files, replies, quality>>

\* 'Done' in choice
ChooseDone ==
    /\ dlg_state = "CHOOSE_EFFECTS"
    /\ IF selected = <<>>
       THEN dlg_state' = "CAPTION" /\ hpc' = hpc
       ELSE StartProcessing
    /\ UNCHANGED <<current_effect_choice, handler, final_files, selected, work, hi,
                   out_files, replies, quality>>

\* choice in parameterized_effects: an existing LUT entry is removed first;
\* the image handler records the choice in current_effect_choice, the video
\* handler returns the state of the effect's own level handler.
ChooseParameterized ==
    /\ dlg_state = "CHOOSE_EFFECTS"
    /\ \E choice \in parameterized_effects(handler) :
          /\ selected' = IF choice = "look-up table"
                         THEN WithoutTuple(selected, "look-up table")
                         ELSE selected
          /\ current_effect_choice' = choice
          /\ dlg_state' = IF choice = "look-up table" THEN "ASK_LUT_TYPE" ELSE "ASK_LEVEL"
    /\ UNCHANGED <<handler, hpc, final_files, work, hi, out_files, replies, quality>>

\* A faulty variant of the standard branch: the choice is appended whatever
\* the length, and the menu is shown again.
ChooseBareUncapped ==
    /\ dlg_state = "CHOOSE_EFFECTS"
    /\ \E choice \in BareChoices :
          selected' = IF HasName(selected, choice)
                      THEN WithoutChoice(selected, choice)
                      ELSE Append(selected, Str(choice))
    /\ UNCHANGED <<dlg_state, current_effect_choice, handler, hpc, final_files, work, hi,
                   out_files, replies, quality>>

\* The standard branch: a selected effect is removed, another one is
\* appended while fewer than 3 are selected, and the third one leads to
\* POST_MAX_*_EFFECTS_CHOICE.
ChooseBare ==
    /\ dlg_state = "CHOOSE_EFFECTS"
    /\ \E choice \in BareChoices :
          IF HasName(selected, choice)
          THEN /\ selected' = WithoutChoice(selected, choice)
               /\ dlg_state' = "CHOOSE_EFFECTS"
          ELSE IF Len(selected) < 3
               THEN /\ selected' = Append(selected, Str(choice))
                    /\ dlg_state' = IF Len(selected) + 1 = 3
                                    THEN "POST_MAX_EFFECTS_CHOICE"
                                    ELSE "CHOOSE_EFFECTS"
               ELSE /\ selected' = selected
                    /\ dlg_state' = "CHOOSE_EFFECTS"
    /\ UNCHANGED <<current_effect_choice, handler, hpc, final_files, work, hi,
                   out_files, replies, quality>>

\* level_setter (video) / set_image_effect_level (image)
SetLevel ==
    /\ dlg_state = "ASK_LEVEL"
    /\ \E text \in LevelChoices(current_effect_choice) :
          LET level == StoredLevel(handler, current_effect_choice, text)
              e == Tup(current_effect_choice, level)
          IN  IF handler = "image" /\ (level = "none" \/ current_effect_choice = "none")
              THEN /\ selected' = selected
                   /\ dlg_state' = "CHOOSE_EFFECTS"
                   /\ current_effect_choice' = current_effect_choice
                   /\ level_answer' = level_answer
              ELSE /\ selected' = Stored(selected, e)
                   /\ level_answer' = [asked |-> TRUE, effect |-> current_effect_choice,
                                       text |-> text, level |-> level]
                   /\ dlg_state' = StateAfterAdd(selected, e)
                   /\ current_effect_choice' =
                          IF handler = "image" /\ StateAfterAdd(selected, e) = "CHOOSE_EFFECTS"
                          THEN "none"
                          ELSE current_effect_choice
    /\ UNCHANGED <<handler, hpc, final_files, work, hi, out_files, replies, quality>>

\* ask_lut_type / ask_image_lut_type
AskLutType ==
    /\ dlg_state = "ASK_LUT_TYPE"
    /\ dlg_state' \in {"BROWSE_LUTS", "RECEIVE_LUT_FILE"}
    /\ UNCHANGED <<current_effect_choice, handler, hpc, final_files, selected, work, hi,
                   out_files, replies, quality>>

\* browse_video_luts / browse_image_luts: a folder or Back shows the browser
\* again, as does a name with no file; a file of assets/luts is added.
BrowseLuts ==
    /\ dlg_state = "BROWSE_LUTS"
    /\ \/ UNCHANGED <<dlg_state, selected>>
       \/ /\ selected' = Stored(selected, Tup("look-up table", "good.cube"))
          /\ dlg_state' = StateAfterAdd(selected, Tup("look-up table", "good.cube"))
    /\ UNCHANGED <<current_effect_choice, handler, hpc, final_files, work, hi,
                   out_files, replies, quality>>

\* receive_lut_file / receive_image_lut_file: a document that is not a .cube
\* file is asked for again; a .cube file is stored whatever it contains.
ReceiveLutFile ==
    /\ dlg_state = "RECEIVE_LUT_FILE"
    /\ \/ UNCHANGED <<dlg_state, selected>>
       \/ \E file \in {"good.cube", "short.cube"} :
             /\ selected' = Stored(selected, Tup("look-up table", file))
             /\ dlg_state' = StateAfterAdd(selected, Tup("look-up table", file))
    /\ UNCHANGED <<current_effect_choice, handler, hpc, final_files, work, hi,
                   out_files, replies, quality>>

\* handle_post_max_effects_choice / handle_post_max_image_effects_choice
PostMaxStart ==
    /\ dlg_state = "POST_MAX_EFFECTS_CHOICE"
    /\ StartProcessing
    /\ UNCHANGED <<current_effect_choice, handler, final_files, selected, work, hi,
                   out_files, replies, quality>>

PostMaxReset ==
    /\ dlg_state = "POST_MAX_EFFECTS_CHOICE"
    /\ selected' = <<>>
    /\ dlg_state' = "CHOOSE_EFFECTS"
    /\ UNCHANGED <<current_effect_choice, handler, hpc, final_files, work, hi,
                   out_files, replies, quality>>

\* handle_render_quality: the quality is stored and
\* process_and_confirm_effects is called
HandleRenderQuality ==
    /\ dlg_state = "ASK_RENDER_QUALITY"
    /\ quality' \in {"draft", "final"}
    /\ dlg_state' = "PROCESSING"
    /\ hpc' = "start"
    /\ UNCHANGED <<current_effect_choice, handler, final_files, selected, work, hi,
                   out_files, replies>>

\* common.cancel, the fallback of every state of the dialogue:
\* send_welcome_message clears user_data
Cancel ==
    /\ dlg_state \in {"CHOOSE_EFFECTS", "ASK_LEVEL", "ASK_LUT_TYPE", "BROWSE_LUTS",
                      "RECEIVE_LUT_FILE", "POST_MAX_EFFECTS_CHOICE", "ASK_RENDER_QUALITY"}
    /\ selected' = <<>>
    /\ final_files' = <<>>
    /\ current_effect_choice' = "none"
    /\ dlg_state' = "MEDIA_TYPE"
    /\ UNCHANGED <<handler, hpc, work, hi, out_files, replies, quality>>

dialogOutside == <<parseVars, frameVars, concVars, tailVars, engine, media, img0, effects, idx, pc, img, applied,
                   warnings, exc, written, cast_mode, resize_interp_ok, encoder>>

InitDialogue ==
    /\ ParseIdle
    /\ FrameIdle
    /\ ConcIdle
    /\ TailIdle
    /\ handler \in {"video", "image"}
    /\ hpc = "idle"
    /\ final_files = <<"a.mp4", "b.jpg">>
    /\ selected = <<>>                      \* ask_video_effects / ask_image_effects
    /\ work = <<>>
    /\ hi = 0
    /\ out_files = <<>>
    /\ replies = <<>>
    /\ engine = handler
    /\ media = "b.jpg"
    /\ img0 = FlatFrame(1, 1)
    /\ effects = <<>>
    /\ idx = 0
    /\ pc = "idle"
    /\ img = FlatFrame(1, 1)
    /\ applied = <<>>
    /\ warnings = <<>>
    /\ exc = "none"
    /\ written = FALSE
    /\ cast_mode = "wrap"
    /\ resize_interp_ok = TRUE
    /\ quality = "final"
    /\ encoder = NoEncoder
    /\ dlg_state = "CHOOSE_EFFECTS"
    /\ current_effect_choice = "none"
    /\ level_answer = NoAnswer

NextDialogue ==
    \/ ChooseReset /\ UNCHANGED <<dialogOutside, level_answer>>
    \/ ChooseDone /\ UNCHANGED <<dialogOutside, level_answer>>
    \/ ChooseParameterized /\ UNCHANGED <<dialogOutside, level_answer>>
    \/ ChooseBare /\ UNCHANGED <<dialogOutside, level_answer>>
    \/ SetLevel /\ UNCHANGED dialogOutside
    \/ AskLutType /\ UNCHANGED <<dialogOutside, level_answer>>
    \/ BrowseLuts /\ UNCHANGED <<dialogOutside, level_answer>>
    \/ ReceiveLutFile /\ UNCHANGED <<dialogOutside, level_answer>>
    \/ PostMaxStart /\ UNCHANGED <<dialogOutside, level_answer>>
    \/ PostMaxReset /\ UNCHANGED <<dialogOutside, level_answer>>
    \/ HandleRenderQuality /\ UNCHANGED <<dialogOutside, level_answer>>
    \/ Cancel /\ UNCHANGED <<dialogOutside, level_answer>>
    \/ BeginVideo /\ UNCHANGED <<parseVars, engineVars, restVars>>
    \/ BeginImage /\ UNCHANGED <<parseVars, engineVars, restVars>>
    \/ PassThrough /\ UNCHANGED <<parseVars, engineVars, restVars>>
    \/ Invoke /\ UNCHANGED <<parseVars, restVars>>
    \/ CollectReturn /\ UNCHANGED <<parseVars, restVars>>
    \/ CollectException /\ UNCHANGED <<parseVars, restVars>>
    \/ Finish /\ UNCHANGED <<parseVars, engineVars, restVars>>
    \/ Open /\ UNCHANGED <<parseVars, handlerVars, restVars>>
    \/ OpenFail /\ UNCHANGED <<parseVars, handlerVars, restVars>>
    \/ LoopSkip /\ UNCHANGED <<parseVars, handlerVars, restVars>>
    \/ LoopApply /\ UNCHANGED <<parseVars, handlerVars, restVars>>
    \/ LoopRaise /\ UNCHANGED <<parseVars, handlerVars, restVars>>
    \/ LoopEnd /\ UNCHANGED <<parseVars, handlerVars, restVars>>
    \/ Save /\ UNCHANGED <<parseVars, handlerVars, restVars>>
    \/ SaveFail /\ UNCHANGED <<parseVars, handlerVars, restVars>>

SpecDialogue == InitDialogue /\ [][NextDialogue]_vars

(***************************************************************************)
(* Two invocations of apply_effects_in_sequence on one engine object, run  *)
(* in two threads (asyncio.to_thread): the registry self.effects_map is    *)
(* the only state of the object, every other value is a local of the call. *)
(***************************************************************************)
Invocations == {1, 2}

\* no file at a path
NoFile == [w |-> 0, h |-> 0, known |-> FALSE, px |-> <<>>]

\* The arguments of the two calls: distinct input and output paths.
InputPath(i) == IF i = 1 THEN "in1" ELSE "in2"

OutputPath(i) == IF i = 1 THEN "out1" ELSE "out2"

Paths == {"in1", "in2", "out1", "out2"}

\* What the two input files decode to.
InputFrame(i) == IF i = 1 THEN StepFrame(MaxW, 1) ELSE FlatFrame(MaxW - 1, MaxH)

\* The chains the two calls are given.
ConcChains ==
    { <<Str("Invert Colors")>>,
      <<Tup("Chromatic Aberration", "low"), Str("Invert Colors")>>,
      <<Str("Sepia"), Tup("Vignette", "high")>>,
      <<Str("Invert Colors"), Tup("look-up table", "short.cube")>> }

\* effect in self.effects_map
InRegistry(e) == e.form \in {"str", "tuple"} /\ e.name \in registry

\* Image.open(image_path).convert('RGB') / mp.VideoFileClip(video_path)
ConcOpen ==
    \E i \in Invocations :
        /\ inv[i].pc = "open"
        /\ inv' = [inv EXCEPT ![i].img = disk[inv[i].media], ![i].pc = "loop"]
        /\ UNCHANGED <<conc_engine, registry, disk>>

\* One iteration of the for loop whose entry is not dispatched.
ConcSkip ==
    \E i \in Invocations :
        /\ inv[i].pc = "loop"
        /\ inv[i].idx <= Len(inv[i].effects)
        /\ ~InRegistry(CurrentEntry(inv[i].effects, inv[i].idx))
        /\ inv' = [inv EXCEPT ![i].idx = @ + 1]
        /\ UNCHANGED <<conc_engine, registry, disk>>

\* One iteration whose effect returns: img = self.effects_map[name](img, ...)
ConcApply ==
    \E i \in Invocations :
        /\ inv[i].pc = "loop"
        /\ inv[i].idx <= Len(inv[i].effects)
        /\ InRegistry(CurrentEntry(inv[i].effects, inv[i].idx))
        /\ EffectError(conc_engine, CurrentEntry(inv[i].effects, inv[i].idx), inv[i].img) = "none"
        /\ inv' = [inv EXCEPT
                     ![i].img = EffectResult(conc_engine,
                                    CurrentEntry(inv[i].effects, inv[i].idx), @, cast_mode),
                     ![i].applied = Append(@, CurrentEntry(inv[i].effects, inv[i].idx)),
                     ![i].idx = @ + 1]
        /\ UNCHANGED <<conc_engine, registry, disk>>

\* One iteration whose effect raises: the call ends with the exception.
ConcRaise ==
    \E i \in Invocations :
        /\ inv[i].pc = "loop"
        /\ inv[i].idx <= Len(inv[i].effects)
        /\ InRegistry(CurrentEntry(inv[i].effects, inv[i].idx))
        /\ EffectError(conc_engine, CurrentEntry(inv[i].effects, inv[i].idx), inv[i].img) # "none"
        /\ inv' = [inv EXCEPT
                     ![i].exc = EffectError(conc_engine,
                                    CurrentEntry(inv[i].effects, inv[i].idx), inv[i].img),
                     ![i].pc = "raised"]
        /\ UNCHANGED <<conc_engine, registry, disk>>

\* A faulty variant of the save: the result is written to the output path
\* of the first call.
ConcSaveSharedPath ==
    \E i \in Invocations :
        /\ inv[i].pc = "loop"
        /\ inv[i].idx > Len(inv[i].effects)
        /\ disk' = [disk EXCEPT ![OutputPath(1)] = inv[i].img]
        /\ inv' = [inv EXCEPT ![i].pc = "done"]
        /\ UNCHANGED <<conc_engine, registry>>

\* After the loop: img.save(output_path, ...) / clip.write_videofile(
\* output_path, ...); return output_path
ConcSave ==
    \E i \in Invocations :
        /\ inv[i].pc = "loop"
        /\ inv[i].idx > Len(inv[i].effects)
        /\ disk' = [disk EXCEPT ![inv[i].out] = inv[i].img]
        /\ inv' = [inv EXCEPT ![i].pc = "done"]
        /\ UNCHANGED <<conc_engine, registry>>

concOutside == <<parseVars, engineVars, handlerVars, frameVars, dialogVars, tailVars>>

\* The engine object after __init__, and two calls that have just begun.
InitConcurrent ==
    /\ ParseIdle
    /\ HandlerIdle
    /\ FrameIdle
    /\ DialogIdle
    /\ TailIdle
    /\ engine = "image"
    /\ media = "b.jpg"
    /\ img0 = FlatFrame(1, 1)
    /\ effects = <<>>
    /\ idx = 0
    /\ pc = "idle"
    /\ img = FlatFrame(1, 1)
    /\ applied = <<>>
    /\ warnings = <<>>
    /\ exc = "none"
    /\ written = FALSE
    /\ cast_mode \in {"wrap", "saturate"}
    /\ resize_interp_ok = TRUE
    /\ quality = "final"
    /\ encoder = NoEncoder
    /\ conc_engine \in {"image", "video"}
    /\ registry = effects_map(conc_engine)
    /\ disk = [p \in Paths |->
                  CASE p = InputPath(1) -> InputFrame(1)
                    [] p = InputPath(2) -> InputFrame(2)
                    [] OTHER -> NoFile]
    /\ \E c1 \in ConcChains, c2 \in ConcChains :
          inv = [i \in Invocations |->
                    [media |-> InputPath(i), out |-> OutputPath(i),
                     effects |-> IF i = 1 THEN c1 ELSE c2, idx |-> 1, pc |-> "open",
                     img |-> NoFile, applied |-> <<>>, exc |-> "none"]]

NextConcurrent ==
    \/ ConcOpen /\ UNCHANGED concOutside
    \/ ConcSkip /\ UNCHANGED concOutside
    \/ ConcApply /\ UNCHANGED concOutside
    \/ ConcRaise /\ UNCHANGED concOutside
    \/ ConcSave /\ UNCHANGED concOutside

SpecConcurrent == InitConcurrent /\ [][NextConcurrent]_vars

(***************************************************************************)
(* Properties of apply_effects_in_sequence (SpecEngine).                   *)
(***************************************************************************)

\* The entries of a chain that the engine dispatches.
RecognizedOf(eng, chain) == SelectSeq(chain, LAMBDA e : Recognized(eng, e))

\* The effects of a chain applied one after the other to a frame.
RECURSIVE RunChain(_, _, _, _)
RunChain(eng, chain, f, cast) ==
    IF chain = <<>> THEN f
    ELSE RunChain(eng, Tail(chain), EffectResult(eng, Head(chain), f, cast), cast)

InLoopOrAfter == pc \in {"loop", "save", "done", "raised"}

Returned == pc = "done"

\* C1: in both engines the recognized entries are applied exactly once each,
\* strictly in list order, each effect consuming the result of the previous
\* one: at every point of the loop the entries applied so far are exactly the
\* recognized entries among those the loop has passed, in chain order, the
\* current frame is their composition on the decoded input, and when the loop
\* is over every entry of the chain has been passed.
C1_AppliedInOrderOnce ==
    InLoopOrAfter =>
        /\ applied = RecognizedOf(engine, SubSeq(effects, 1, idx - 1))
        /\ img = RunChain(engine, applied, img0, cast_mode)
        /\ pc \in {"save", "done"} => applied = RecognizedOf(engine, effects)

\* C1 witness: a run that returned after applying two different effects and
\* passing over an unrecognized entry between them.
C1_Witness ==
    /\ Returned
    /\ Len(effects) = 3
    /\ Recognized(engine, effects[1])
    /\ ~Recognized(engine, effects[2])
    /\ Recognized(engine, effects[3])
    /\ effects[1] # effects[3]
    /\ applied = <<effects[1], effects[3]>>

ShiftOfLevel(level) == DictGet(chromatic_level_map, level, 6)

\* C2 (as claimed): after Chromatic Aberration with shift s the red channel is
\* the input's red channel s columns to the left and the blue channel the
\* input's s columns to the right, and the columns shifted in from outside
\* the frame are 0: the rightmost s columns of red and the leftmost s columns
\* of blue.
C2_NoWrapShift ==
    \A l \in Levels :
        (effects = <<Tup("Chromatic Aberration", l)>> /\ pc \in {"save", "done"}) =>
            \A y \in 1..img.h, x \in 1..img.w :
                /\ img.px[y][x][1] = IF x + ShiftOfLevel(l) <= img.w
                                     THEN img0.px[y][x + ShiftOfLevel(l)][1] ELSE 0
                /\ img.px[y][x][3] = IF x - ShiftOfLevel(l) >= 1
                                     THEN img0.px[y][x - ShiftOfLevel(l)][3] ELSE 0
                /\ img.px[y][x][2] = img0.px[y][x][2]

KeepsSize(eng, e) == ~(e.name = "Rotate" \/ (eng = "video" /\ e.name = "Pixelated Effect"))

UnknownName(eng, e) == e.form \in {"str", "tuple"} /\ e.name \notin effects_map(eng)

\* C4 (as claimed): in both engines an entry whose name is not registered is
\* skipped with a warning and the chain goes on: once the loop is over a
\* warning was printed for each such entry, every recognized entry was applied
\* in order, and a run that returns has written the output.
C4_UnknownSkippedWithWarning ==
    /\ pc \in {"save", "done"} =>
          /\ \A i \in 1..Len(effects) :
                UnknownName(engine, effects[i]) =>
                    \E k \in 1..Len(warnings) : warnings[k].at = i
          /\ applied = RecognizedOf(engine, effects)
    /\ Returned => written

\* A 'look-up table' entry whose file cannot be opened or parsed.
FailingLut(e) ==
    /\ e.form = "tuple"
    /\ e.name = "look-up table"
    /\ Len(e.params) = 1
    /\ LutError(e.params[1]) # "none"

\* C5: a 'look-up table' entry at position k whose file is missing or does
\* not parse aborts the run: the loop never gets past k, so no entry after k is
\* applied, the engine never saves or returns, nothing is written, and when
\* the loop stops at k it is with the exception of the LUT.
C5_LutFailureAborts ==
    \A k \in 1..Len(effects) :
        FailingLut(effects[k]) =>
            /\ idx <= k
            /\ Len(applied) <= k - 1
            /\ pc \notin {"save", "done"}
            /\ ~written
            /\ (pc = "raised" /\ idx = k /\ exc # "IOError: decode")
                  => exc = LutError(effects[k].params[1])

\* C5 witness: the run was aborted by a LUT at position 2 after one effect
\* was applied, with a recognized entry left behind it.
C5_Witness ==
    /\ pc = "raised"
    /\ Len(effects) = 3
    /\ idx = 2
    /\ FailingLut(effects[2])
    /\ exc = LutError(effects[2].params[1])
    /\ Len(applied) = 1
    /\ Recognized(engine, effects[3])
    /\ ~written

InvertedFrame(f) ==
    [f EXCEPT !.px = [y \in 1..f.h |-> [x \in 1..f.w |->
        <<255 - f.px[y][x][1], 255 - f.px[y][x][2], 255 - f.px[y][x][3]>>]]]

\* C9: Invert Colors maps every channel value v to 255 - v, and two
\* consecutive Invert Colors entries return the input frame exactly.
C9_InvertInvolution ==
    /\ (effects = <<Str("Invert Colors")>> /\ pc \in {"save", "done"})
          => img = InvertedFrame(img0)
    /\ (effects = <<Str("Invert Colors"), Str("Invert Colors")>> /\ pc \in {"save", "done"})
          => img = img0

\* C9 witness: a run of [Invert Colors, Invert Colors] returned, on a frame
\* with more than one pixel and two colours.
C9_Witness ==
    /\ Returned
    /\ effects = <<Str("Invert Colors"), Str("Invert Colors")>>
    /\ Len(applied) = 2
    /\ img0.w > 1
    /\ img0.px[1][1] # img0.px[1][2]
    /\ img = img0

\* C10: for the same input frame and level, [Invert Colors, Vignette] and
\* [Vignette, Invert Colors] produce different frames.
C10_OrderMatters ==
    \A l \in Levels :
        /\ (effects = <<Str("Invert Colors"), Tup("Vignette", l)>> /\ pc \in {"save", "done"})
              => img # RunChain(engine, <<Tup("Vignette", l), Str("Invert Colors")>>,
                                img0, cast_mode)
        /\ (effects = <<Tup("Vignette", l), Str("Invert Colors")>> /\ pc \in {"save", "done"})
              => img # RunChain(engine, <<Str("Invert Colors"), Tup("Vignette", l)>>,
                                img0, cast_mode)

\* C10 witness: a run of [Vignette (high), Invert Colors] returned on a
\* frame of the largest size.
C10_Witness ==
    /\ Returned
    /\ effects = <<Tup("Vignette", "high"), Str("Invert Colors")>>
    /\ Len(applied) = 2
    /\ img0.w = MaxW
    /\ img0.h = MaxH

(***************************************************************************)
(* Properties of parse_cube_file (SpecParse).                              *)
(***************************************************************************)
LastSize(lines) == PyInt(lines[LastSizeLine(lines)][Len(lines[LastSizeLine(lines)])])

Cube(n) == n * n * n

\* C7 (as claimed): parse_cube_file returns a table only when N > 0 and the
\* file holds exactly N^3 data rows, each of exactly three numeric tokens.
C7_TableOnlyFromFullCube ==
    parse_pc = "returned" =>
        /\ SizeLines(cube_file) # {}
        /\ LastSize(cube_file) > 0
        /\ Cardinality(DataRows(cube_file)) = Cube(LastSize(cube_file))
        /\ \A i \in DataRows(cube_file) :
              Len(cube_file[i]) = 3 /\ ~RowRaises(cube_file[i])

NoSizeOrNoRows(lines) ==
    \/ SizeLines(lines) = {}
    \/ LastSize(lines) = 0
    \/ DataRows(lines) = {}

WithoutBlankAndComments(lines) == SelectSeq(lines, LAMBDA l : ~IsBlankOrComment(l))

\* C8 (as claimed): whenever the file has no LUT_3D_SIZE line, its last
\* LUT_3D_SIZE value is 0, or it has no data row, parse_cube_file fails with
\* the format error and returns no table.
C8_FormatErrorWhenever ==
    (parse_pc # "start" /\ NoSizeOrNoRows(cube_file)) =>
        /\ parse_pc = "raised"
        /\ ~parse_out.ok
        /\ parse_out.err = FormatError

\* C8 (amended): in those cases parse_cube_file fails and returns no table;
\* the failure is the format error unless a LUT_3D_SIZE value or a data-row
\* token of the file does not convert, and then it is that conversion's
\* ValueError; blank lines and lines starting with '#' never count: the
\* result is that of the file without them.
C8_FailsNoTable ==
    parse_pc # "start" =>
        /\ NoSizeOrNoRows(cube_file) =>
              /\ parse_pc = "raised"
              /\ ~parse_out.ok
              /\ parse_out.table = <<>>
              /\ IF \E i \in 1..Len(cube_file) : BadConversion(cube_file[i])
                 THEN parse_out.err \in {"ValueError: int", "ValueError: float"}
                 ELSE parse_out.err = FormatError
        /\ parse_out = parse_cube_file(WithoutBlankAndComments(cube_file), numpy_ragged_ok)

\* C8 witness: the format error was raised for a file with a size line of 0,
\* a data row and a comment.
C8_Witness ==
    /\ parse_pc = "raised"
    /\ parse_out.err = FormatError
    /\ SizeLines(cube_file) # {}
    /\ LastSize(cube_file) = 0
    /\ DataRows(cube_file) # {}
    /\ \E i \in 1..Len(cube_file) : Len(cube_file[i]) > 0 /\ StartsWithHash(cube_file[i][1])

(***************************************************************************)
(* Properties of the batch handlers (SpecBatch).                           *)
(***************************************************************************)
Names(paths) == [k \in 1..Len(paths) |-> paths[k].name]

\* What the handler does with the engine's outcome for the file work[hi].
CollectsOutcome ==
    (hpc = "wait" /\ pc \in {"done", "raised"}) =>
        /\ hi' = hi + 1
        /\ hpc' = "loop"
        /\ out_files' = Append(out_files, IF pc = "done" THEN OutPath(hi - 1, work[hi])
                                          ELSE OrigPath(work[hi]))
        /\ replies' = IF pc = "raised" THEN Append(replies, work[hi]) ELSE replies

\* The result list when the handler asks for confirmation.
OneEntryPerFile ==
    hpc = "confirm" =>
        /\ hi = Len(work) + 1
        /\ Len(out_files) = Len(final_files)
        /\ Names(out_files) = IF handler = "video" THEN final_files
                              ELSE video_files(final_files) \o image_files(final_files)

\* C6: a failure of the engine on one file does not abort the batch: when the
\* engine returns, its output path is appended, when it raises, the original
\* path is appended and a failure message is sent for that file, and either
\* way the loop goes on with the next file; at the end the result list holds
\* exactly one entry for every file of the batch.
C6_BatchContinues == []OneEntryPerFile /\ [][CollectsOutcome]_vars

\* C6 witness: a batch whose first file failed and whose second file was
\* processed, with one failure message.
C6_Witness ==
    /\ hpc = "confirm"
    /\ Len(work) = 2
    /\ Len(out_files) = 2
    /\ out_files[1] = OrigPath(work[1])
    /\ out_files[2] = OutPath(1, work[2])
    /\ replies = <<work[1]>>

\* C28: applying effects to a batch preserves its length and order: the
\* result list has the length of final_files and its entry at position i
\* is the output of, or is, the file at position i of final_files.
C28_BatchOrderPreserved ==
    hpc = "confirm" =>
        /\ Len(out_files) = Len(final_files)
        /\ Names(out_files) = final_files

(***************************************************************************)
(* Properties of the level tables (SpecEngine).                            *)
(***************************************************************************)
\* An applied entry of a leveled effect without a level, or with a level that
\* is not low, medium or high.
NoValidLevel(eng, e) ==
    /\ e.name \in LeveledEffects(eng)
    /\ ~ArityError(eng, e)
    /\ e.params = <<>> \/ e.params[1] \notin Levels

\* C11 (as claimed): every leveled effect that is applied for an entry
\* without a level, or with a level that is not low/medium/high, works with
\* its Medium parameter, in both engines.
C11_DefaultIsMedium ==
    InLoopOrAfter =>
        \A i \in 1..Len(applied) :
            NoValidLevel(engine, applied[i]) =>
                EffectParam(engine, applied[i]) = level_map(engine, applied[i].name).medium

(***************************************************************************)
(* Properties of the executor's length, write step and quality             *)
(* (SpecEngine).                                                           *)
(***************************************************************************)
\* C13: the executor caps nothing: the loop is left only behind the last
\* entry of the chain, whatever its length, with every recognized entry
\* applied; for the empty chain the run that returns has applied nothing
\* and written the decoded input frame.
C13_NoCapOnLength ==
    /\ pc \in {"save", "done"} =>
          /\ idx = Len(effects) + 1
          /\ Len(applied) = Len(RecognizedOf(engine, effects))
    /\ (Returned /\ effects = <<>>) => (applied = <<>> /\ img = img0 /\ written)

\* C13 witness: a run returned after applying a chain of more than 3
\* entries in full.
C13_Witness ==
    /\ Returned
    /\ Len(effects) > 3
    /\ Len(applied) = Len(effects)
    /\ written

\* C14: when the write step fails the engine does not return output_path:
\* the encoder's error is the exception that leaves the engine, from the
\* write step and nowhere else, and a run that returned has no exception.
C14_EncodeErrorPropagates ==
    /\ exc = "EncodeError" => (pc = "raised" /\ idx = Len(effects) + 1)
    /\ Returned => (exc = "none" /\ written)

\* C14 witness: the write step of a run that applied two effects failed.
C14_Witness ==
    /\ pc = "raised"
    /\ exc = "EncodeError"
    /\ Len(applied) = 2
    /\ encoder # NoEncoder

\* C17: the quality decides the encoder settings only: 'draft' gives preset
\* ultrafast with CRF 28, any other value preset slow with CRF 18, and the
\* effects applied and the resulting clip are those of the chain whatever the
\* quality is.
C17_QualityOnlyEncoder ==
    /\ (engine = "video" /\ (Returned \/ exc = "EncodeError")) =>
          /\ quality = "draft" => (encoder.preset = "ultrafast" /\ encoder.crf = 28)
          /\ quality # "draft" => (encoder.preset = "slow" /\ encoder.crf = 18)
    /\ pc \in {"save", "done"} =>
          /\ applied = RecognizedOf(engine, effects)
          /\ img = RunChain(engine, RecognizedOf(engine, effects), img0, cast_mode)

\* C17 witness: a draft run of the video engine returned after applying a
\* chain of more than three entries.
C17_Witness ==
    /\ Returned
    /\ engine = "video"
    /\ quality = "draft"
    /\ Len(applied) > 3
    /\ encoder.crf = 28

(***************************************************************************)
(* Properties of Vignette (SpecEngine).                                    *)
(***************************************************************************)
\* C18 (as claimed): for every level and every pixel the vignette factor
\* 1 - strength * d^2 lies in [0, 1], and every output channel value v'
\* satisfies 0 <= v' <= v.
C18_VignetteWithinRange ==
    (InLoopOrAfter /\ Len(applied) = 1 /\ applied[1].name = "Vignette"
        /\ ~ArityError(engine, applied[1])) =>
        LET s2 == DictGet(vignette_level_map2, LevelOf(applied[1]), 2) IN
        \A y \in 1..img0.h, x \in 1..img0.w :
            /\ MaskNum(x, y, img0.w, img0.h, s2) >= 0
            /\ MaskNum(x, y, img0.w, img0.h, s2) <= MaskDen(img0.w, img0.h)
            /\ \A c \in 1..3 : img.px[y][x][c] >= 0 /\ img.px[y][x][c] <= img0.px[y][x][c]


(***************************************************************************)
(* Properties of the frame functions (SpecFrame).                          *)
(***************************************************************************)
\* C12: every effect is pure with respect to its input: after the call the
\* array the function received holds the pixel values it held before.
C12_InputUntouched ==
    fx_pc = "returned" => arr_arg = arr_in

\* the trigger probabilities the claim C19 states, in hundredths
StatedProbability == [low |-> 30, medium |-> 50, high |-> 70]

\* C19: in both engines an attempt modifies a strip exactly when its draw r
\* is below 0.30 / 0.50 / 0.70 for low / medium / high, and an invocation
\* makes between 1 and 5 attempts.
C19_GlitchProbability ==
    /\ glitch_last.attempted =>
          (glitch_last.triggered <=> glitch_last.r < StatedProbability[fx_level])
    /\ fx_pc = "attempts" => glitch_n \in 1..5

\* the strip rows of a frame whose strip starts at the 0-based row y
StripRows(f, y) == {yy \in 1..f.h : yy > y /\ yy <= y + glitch_height(f.h)}

\* C20: after a triggered attempt with displacement d, column x of the
\* strip holds the original column x - d where that column exists and 0
\* where it does not (exactly |d| columns), and the rows outside the strip
\* and a strip displaced by 0 are unchanged.
C20_RollNoWraparound ==
    (glitch_last.attempted /\ glitch_last.triggered) =>
        LET b == glitch_last.before
            d == glitch_last.d
        IN  \A yy \in 1..b.h : \A x \in 1..b.w :
                arr_out.px[yy][x] =
                    IF yy \in StripRows(b, glitch_last.y)
                    THEN IF x - d \in 1..b.w THEN b.px[yy][x - d] ELSE <<0, 0, 0>>
                    ELSE b.px[yy][x]


(***************************************************************************)
(* Properties of the selection dialogue (SpecDialogue).                    *)
(***************************************************************************)
\* C16: after any sequence of dialogue actions the stored selection has at
\* most 3 entries, and the engine is only invoked with the stored
\* selection, hence with at most 3 entries.
C16_CapEnforcedByDialogue ==
    /\ Len(selected) <= 3
    /\ pc # "idle" => (effects = selected /\ Len(effects) <= 3)

\* The engine has run a stored selection of 3 entries, one of them a LUT
\* and one a leveled effect.
C16_Witness ==
    /\ dlg_state = "PROCESSING"
    /\ pc = "done"
    /\ Len(effects) = 3
    /\ HasName(effects, "look-up table")
    /\ \E k \in 1..3 : effects[k].form = "tuple" /\ effects[k].name # "look-up table"


(***************************************************************************)
(* Properties of concurrent invocations (SpecConcurrent).                  *)
(***************************************************************************)
\* what the call i does when it runs alone: the frame after its loop
SoloResult(i) ==
    RunChain(conc_engine, RecognizedOf(conc_engine, inv[i].effects), InputFrame(i), cast_mode)

C21_DisplacementWithinQuarter ==
    (glitch_last.attempted /\ glitch_last.triggered) =>
        /\ 4 * glitch_last.d <= glitch_last.before.w
        /\ 4 * (0 - glitch_last.d) <= glitch_last.before.w
        /\ 0 <= glitch_last.y
        /\ glitch_last.y + glitch_height(glitch_last.before.h) <= glitch_last.before.h


\* C30: for every effect registered in both engines and every level, the
\* two engines select the same numeric parameter.
C30_EnginesAgreeOnParameters ==
    (fx_pc = "returned" /\ fx_name \in LeveledEffects("image") \cap LeveledEffects("video")) =>
        level_map("image", fx_name)[fx_level] = level_map("video", fx_name)[fx_level]


\* the frame function of Vignette has returned on a frame of known pixels
VignetteReturned == fx_pc = "returned" /\ fx_name = "Vignette" /\ arr_in.known

\* C24: the pixel at the frame center (w/2, h/2), which exists when w and h
\* are even, keeps its value at every level; the corner pixel (0, 0), at
\* normalized distance 1, is multiplied by 1 - strength: halved at low,
\* 0 at medium.
C24_VignetteFalloff ==
    VignetteReturned =>
        /\ (arr_in.w % 2 = 0 /\ arr_in.h % 2 = 0) =>
              arr_out.px[arr_in.h \div 2 + 1][arr_in.w \div 2 + 1]
                  = arr_in.px[arr_in.h \div 2 + 1][arr_in.w \div 2 + 1]
        /\ fx_level = "low" =>
              \A c \in 1..3 : arr_out.px[1][1][c] = arr_in.px[1][1][c] \div 2
        /\ fx_level = "medium" =>
              \A c \in 1..3 : arr_out.px[1][1][c] = 0

\* A low vignette on a frame with a center pixel: the corner is darkened,
\* the center is not.
C24_Witness ==
    /\ VignetteReturned
    /\ fx_level = "low"
    /\ arr_in.w = MaxW - (MaxW % 2) /\ arr_in.h = MaxH - (MaxH % 2)
    /\ arr_out.px[1][1] # arr_in.px[1][1]
    /\ arr_in.px[arr_in.h \div 2 + 1][arr_in.w \div 2 + 1] = <<200, 100, 50>>
    /\ arr_out.px[arr_in.h \div 2 + 1][arr_in.w \div 2 + 1] = <<200, 100, 50>>


\* no effect name occurs twice in a selection
NoNameTwice(sel) ==
    \A j \in 1..Len(sel) : \A k \in 1..Len(sel) : sel[j].name = sel[k].name => j = k

\* C27: every effect name in the selection handed to an engine is a key of
\* that engine's registry, and no effect name occurs twice in it.
C27_SelectionNamesRegistered ==
    pc # "idle" =>
        /\ \A k \in 1..Len(effects) : effects[k].name \in effects_map(engine)
        /\ NoNameTwice(effects)

\* The level an offered option stands for by its place on the keyboard:
\* first = low, second = medium, third = high.
OptionLevel(text) ==
    CASE text \in {"Low", "15°"} -> "low"
      [] text \in {"Medium", "45°"} -> "medium"
      [] OTHER -> "high"

\* C26: in the video dialogue, the entry a level setter records for an
\* offered option carries the level of that option (first = low, second =
\* medium, third = high).
C26_RecordedLevelIsChosenOption ==
    (handler = "video" /\ level_answer.asked) =>
        level_answer.level = OptionLevel(level_answer.text)

(***************************************************************************)
(* SpecPoint: one channel value through a per-pixel function.  Film Grain  *)
(* and Fade In/Out act on every channel of every pixel alike, so one       *)
(* channel value, one noise draw and one frame time stand for the frame.   *)
(***************************************************************************)
\* level_map.get(level, default) of an effect, in hundredths
LevelValue(eng, name, level) ==
    DictGet(level_map(eng, name), level, level_fallback(eng, name))

\* np.random.randint(-25, 25, frame.shape): low is inclusive, high exclusive
GrainNoise == (0 - 25)..24

\* the channel values the functions are called with
ChannelPool == {0, 10, 100, 250, 255}

\* np.clip(x, 0, 255).astype('uint8') of a value in hundredths: the clip,
\* then the truncation of the cast
ClipCast(x100) ==
    IF x100 < 0 THEN 0 ELSE IF x100 > 25500 THEN 255 ELSE x100 \div 100

\* apply_film_grain on one channel value v with the draw n:
\* np.clip(frame + n * strength, 0, 255).astype('uint8')
apply_film_grain(eng, level, v, n) ==
    ClipCast(100 * v + n * LevelValue(eng, "Film Grain", level))

FilmGrainCall ==
    /\ px_fn = "film_grain"
    /\ px_pc = "call"
    /\ px_out' = [v |-> apply_film_grain(px_arg.engine, px_arg.level, px_arg.v, px_arg.n)]
    /\ px_pc' = "returned"
    /\ UNCHANGED <<px_fn, px_arg>>

\* vfx.fadein(clip, duration): the frame at t >= duration is gf(t), an
\* earlier one is (t / duration) * gf(t) + (1 - t / duration) * 0.
\* The factor as a numerator over duration.
fadein(t, duration) == IF t >= duration THEN duration ELSE t

\* vfx.fadeout(clip, duration): the frame at clip.duration - t >= duration
\* is gf(t), a later one is ((clip.duration - t) / duration) * gf(t).
fadeout(t, duration, clip_duration) ==
    IF clip_duration - t >= duration THEN duration ELSE clip_duration - t

\* A faulty variant of the function below: the fade-out is left out.
apply_fade_in_only(level, t, clip_duration, v) ==
    LET duration == LevelValue("video", "Fade In/Out", level) IN
    [num |-> v * fadein(t, duration) * duration, den |-> duration * duration]

\* apply_fade_in_out: clip.fx(vfx.fadein, duration).fx(vfx.fadeout, duration)
\* on the channel value v of the frame at time t; times in hundredths of a
\* second, the value as num / den
apply_fade_in_out(level, t, clip_duration, v) ==
    LET duration == LevelValue("video", "Fade In/Out", level) IN
    [num |-> v * fadein(t, duration) * fadeout(t, duration, clip_duration),
     den |-> duration * duration]

FadeCall ==
    /\ px_fn = "fade"
    /\ px_pc = "call"
    /\ px_out' = apply_fade_in_out(px_arg.level, px_arg.t, px_arg.clip_duration, px_arg.v)
    /\ px_pc' = "returned"
    /\ UNCHANGED <<px_fn, px_arg>>

\* the clips Fade In/Out is explored on: 3, 4 and 5 seconds
ClipDurations == {300, 400, 500}

\* the frame times explored: every half second of the clip
FrameTimes(clip_duration) == {50 * k : k \in 0..(clip_duration \div 50)}

FilmGrainArgs ==
    {[engine |-> e, level |-> l, v |-> v, n |-> n] :
        e \in {"image", "video"}, l \in Levels, v \in ChannelPool, n \in GrainNoise}

FadeArgs ==
    UNION {{[level |-> l, clip_duration |-> D, t |-> t, v |-> v] :
               l \in Levels, t \in FrameTimes(D), v \in {0, 100, 200}} :
           D \in ClipDurations}

(***************************************************************************)
(* apply_lut.  A table value is in thousandths (PyFloat); a point is three *)
(* coordinates c / den of [0, 1]: a pixel is the point (r, g, b) / 255.    *)
(***************************************************************************)
ToneCube ==
    << <<"LUT_3D_SIZE", "2">>,
       Row3("0", "0.5", "1"), Row3("0.5", "0", "0"), Row3("1", "1", "0.5"), Row3("0", "2", "0.5"),
       Row3("0.5", "0.5", "0"), Row3("1", "0", "2"), Row3("0", "1", "1"), Row3("2", "0.5", "0") >>

RECURSIVE GCD(_, _)
GCD(a, b) == IF b = 0 THEN a ELSE GCD(b, a % b)

\* grid_points = np.linspace(0, 1, lut_size): node i is at i / (N - 1).  The
\* cell of the coordinate c / den, the last cell for the last node.
CellOf(c, den, N) ==
    IF (c * (N - 1)) \div den > N - 2 THEN N - 2 ELSE (c * (N - 1)) \div den

\* the distance of c / den from the node below it, in cells, in lowest terms
CellFraction(c, den, N) ==
    LET f == c * (N - 1) - CellOf(c, den, N) * den
        g == GCD(f, den)
    IN  [num |-> f \div g, den |-> den \div g]

\* the weight of the lower (a = 0) and of the upper (a = 1) node of a cell
NodeWeight(frac, a) == IF a = 0 THEN frac.den - frac.num ELSE frac.num

\* A faulty variant of the operator below: the first column of a data row
\* is taken to change fastest.
GridRowRedFastest(N, i, j, l) == l * N * N + j * N + i

\* np.array(lut_data).reshape((N, N, N, 3)): the data row (0-based) that
\* lut_table[i][j][l] holds
GridRow(N, i, j, l) == i * N * N + j * N + l

\* lut_table[i][j][l][ch], ch in 1..3
NodeValue(table, N, i, j, l, ch) == table[3 * GridRow(N, i, j, l) + ch]

\* RegularGridInterpolator((g, g, g), lut_table)(point), method 'linear':
\* the blend of the 8 nodes of the cell, each weighted by the product of its
\* weights along the three axes.  The three channels as numerators over den.
interp(table, N, point) ==
    LET fr == CellFraction(point.c[1], point.den, N)
        fg == CellFraction(point.c[2], point.den, N)
        fb == CellFraction(point.c[3], point.den, N)
        i == CellOf(point.c[1], point.den, N)
        j == CellOf(point.c[2], point.den, N)
        l == CellOf(point.c[3], point.den, N)
        Term(ch, a, b, e) ==
            NodeValue(table, N, i + a, j + b, l + e, ch)
                * NodeWeight(fr, a) * NodeWeight(fg, b) * NodeWeight(fb, e)
        Blend(ch) ==
            Term(ch, 0, 0, 0) + Term(ch, 0, 0, 1) + Term(ch, 0, 1, 0) + Term(ch, 0, 1, 1)
            + Term(ch, 1, 0, 0) + Term(ch, 1, 0, 1) + Term(ch, 1, 1, 0) + Term(ch, 1, 1, 1)
    IN  [num |-> <<Blend(1), Blend(2), Blend(3)>>, den |-> fr.den * fg.den * fb.den]

\* frame.astype(np.float32) / 255.0 is exact at 0 and at 255 only; elsewhere
\* the result carries the rounding of float32 (relative spacing 2^-24), which
\* is below den / 64 + 1 units of 1 / (1000 * den * 255) once scaled to a byte.
RoundingSlack(den) == IF den = 1 THEN 0 ELSE den \div 64 + 1

\* (np.clip(x, 0, 1) * 255).astype(np.uint8) of x = num / (1000 * den): the
\* bytes the cast can produce given the rounding of x
ClipBytes(num, den) ==
    LET c == IF num < 0 THEN 0 ELSE IF num > 1000 * den THEN 1000 * den ELSE num
        At(x) == IF x < 0 THEN 0
                 ELSE IF x > 255 * 1000 * den THEN 255
                 ELSE x \div (1000 * den)
    IN  {At(255 * c - RoundingSlack(den)), At(255 * c), At(255 * c + RoundingSlack(den))}

\* the .cube files apply_lut is explored with
LutFiles == {GoodCube, ToneCube, cube_on_disk["short.cube"]}

\* apply_lut on one pixel: parse_cube_file, the interpolator at pixel / 255,
\* the clip and the cast; an exception of the parser leaves the function.
ApplyLut ==
    /\ px_fn = "apply_lut"
    /\ px_pc = "call"
    /\ LET parsed == parse_cube_file(px_arg.lines, FALSE) IN
       IF ~parsed.ok
       THEN px_out' = [raised |-> parsed.err]
       ELSE LET new_pixels == interp(parsed.table, parsed.lut_size,
                                     [c |-> px_arg.pixel, den |-> 255])
            IN  \E frame \in ClipBytes(new_pixels.num[1], new_pixels.den)
                                \X ClipBytes(new_pixels.num[2], new_pixels.den)
                                \X ClipBytes(new_pixels.num[3], new_pixels.den) :
                   px_out' = [raised |-> "none", new_pixels |-> new_pixels, frame |-> frame]
    /\ px_pc' = "returned"
    /\ UNCHANGED <<px_fn, px_arg>>

\* interp(pixels) at a point of the half grid: every coordinate at a node or
\* half way between two adjacent nodes
Interp ==
    /\ px_fn = "interp"
    /\ px_pc = "call"
    /\ LET parsed == parse_cube_file(px_arg.lines, FALSE) IN
       px_out' = [raised |-> "none",
                  new_pixels |-> interp(parsed.table, parsed.lut_size, px_arg.point)]
    /\ px_pc' = "returned"
    /\ UNCHANGED <<px_fn, px_arg>>

\* the pixel values apply_lut is explored with
PixelPool == {0, 51, 85, 255}

ApplyLutArgs ==
    {[engine |-> e, lines |-> f, pixel |-> <<r, g, b>>] :
        e \in {"image", "video"}, f \in LutFiles, r \in PixelPool, g \in PixelPool, b \in PixelPool}

\* the points of the half grid of a table of N nodes an axis
HalfGrid(N) ==
    {[c |-> <<r, g, b>>, den |-> 2 * (N - 1)] :
        r \in 0..(2 * (N - 1)), g \in 0..(2 * (N - 1)), b \in 0..(2 * (N - 1))}

InterpArgs ==
    UNION {{[lines |-> f, point |-> q] :
               q \in HalfGrid(parse_cube_file(f, FALSE).lut_size)} :
           f \in {GoodCube, ToneCube}}

InitPoint ==
    /\ ParseIdle
    /\ HandlerIdle
    /\ FrameIdle
    /\ DialogIdle
    /\ ConcIdle
    /\ SessIdle
    /\ engine = "image"
    /\ media = "b.jpg"
    /\ img0 = FlatFrame(1, 1)
    /\ effects = <<>>
    /\ idx = 0
    /\ pc = "idle"
    /\ img = FlatFrame(1, 1)
    /\ applied = <<>>
    /\ warnings = <<>>
    /\ exc = "none"
    /\ written = FALSE
    /\ cast_mode = "wrap"
    /\ resize_interp_ok = TRUE
    /\ quality = "final"
    /\ encoder = NoEncoder
    /\ px_fn \in {"film_grain", "fade", "apply_lut", "interp"}
    /\ px_pc = "call"
    /\ px_arg \in (CASE px_fn = "film_grain" -> FilmGrainArgs
                     [] px_fn = "fade" -> FadeArgs
                     [] px_fn = "apply_lut" -> ApplyLutArgs
                     [] OTHER -> InterpArgs)
    /\ px_out = <<>>

pointOutside == <<parseVars, engineVars, handlerVars, frameVars, dialogVars, concVars, sessVars>>

NextPoint ==
    \/ FilmGrainCall /\ UNCHANGED pointOutside
    \/ FadeCall /\ UNCHANGED pointOutside
    \/ ApplyLut /\ UNCHANGED pointOutside
    \/ Interp /\ UNCHANGED pointOutside

SpecPoint == InitPoint /\ [][NextPoint]_vars

\* the scale the claim states for a level, in hundredths
StatedGrainScale(level) ==
    CASE level = "low" -> 100 [] level = "medium" -> 150 [] OTHER -> 200

FilmGrainReturned == px_fn = "film_grain" /\ px_pc = "returned"

\* C22: Film Grain adds n * scale with n drawn from the whole range -25..25
\* (both ends attainable) and scale 1 / 1.5 / 2 by level, then clips: every
\* output value is in 0..255 and differs from the input by at most 25 * scale.
C22_FilmGrainBounded ==
    FilmGrainReturned =>
        /\ GrainNoise = (0 - 25)..25
        /\ px_out.v \in 0..255
        /\ 100 * (px_out.v - px_arg.v) <= 25 * StatedGrainScale(px_arg.level)
        /\ 100 * (px_arg.v - px_out.v) <= 25 * StatedGrainScale(px_arg.level)

\* the fade duration the claim states for a level, in hundredths of a second
StatedFade(level) ==
    CASE level = "low" -> 100 [] level = "medium" -> 150 [] OTHER -> 200

FadeReturned == px_fn = "fade" /\ px_pc = "returned"

\* C25: on a clip of duration D >= 2d, Fade In/Out with fade duration d
\* (1.0 / 1.5 / 2.0 s by level) gives the frame at t the opacity t / d on
\* [0, d] and (D - t) / d on [D - d, D], and leaves a frame with
\* d <= t <= D - d equal to the source frame.
C25_FadeWindows ==
    (FadeReturned /\ px_arg.clip_duration >= 2 * StatedFade(px_arg.level)) =>
        LET d == StatedFade(px_arg.level)
            D == px_arg.clip_duration
            t == px_arg.t
        IN  /\ t <= d => px_out.num * d = px_arg.v * t * px_out.den
            /\ t >= D - d => px_out.num * d = px_arg.v * (D - t) * px_out.den
            /\ (d <= t /\ t <= D - d) => px_out.num = px_arg.v * px_out.den

\* level low on a 5 s clip: the frame at 2.5 s is the source frame, the one
\* at 0.5 s has half its value
C25_Witness ==
    /\ FadeReturned
    /\ px_arg.level = "low"
    /\ px_arg.clip_duration = 500
    /\ px_arg.v = 100
    /\ \/ px_arg.t = 250 /\ px_out.num = 100 * px_out.den
       \/ px_arg.t = 450 /\ 2 * px_out.num = 100 * px_out.den

\* the point a LUT call evaluated the table at
LutPoint == IF px_fn = "apply_lut" THEN [c |-> px_arg.pixel, den |-> 255] ELSE px_arg.point

LutReturned ==
    /\ px_fn \in {"apply_lut", "interp"}
    /\ px_pc = "returned"
    /\ px_out.raised = "none"

\* the value (channel ch) of the data row the claim places at grid index
\* (i, j, l): the row k with (k div N^2, (k div N) mod N, k mod N) = (i, j, l)
StatedNode(table, N, i, j, l, ch) ==
    LET k == CHOOSE k \in 0..(N * N * N - 1) :
                 /\ k \div (N * N) = i
                 /\ (k \div N) % N = j
                 /\ k % N = l
    IN  table[3 * k + ch]

\* the coordinate c / den is node number c * (N - 1) / den
OnNode(c, den, N) == (c * (N - 1)) % den = 0

\* the coordinate c / den is half way between two adjacent nodes
OnHalf(c, den, N) == ~OnNode(c, den, N) /\ (2 * c * (N - 1)) % den = 0

\* the node at or below the coordinate
NodeBelow(c, den, N) == (c * (N - 1)) \div den

\* C23: apply_lut blends the 8 enclosing nodes trilinearly, the nodes evenly
\* spaced at N points over [0, 1] and data row k at grid index
\* (k div N^2, (k div N) mod N, k mod N): at a grid node the result is the
\* stored node value, half way between two adjacent nodes it is their mean.
C23_TrilinearAtNodesAndMidpoints ==
    LutReturned =>
        LET parsed == parse_cube_file(px_arg.lines, FALSE)
            N == parsed.lut_size
            q == LutPoint
            at(a) == NodeBelow(q.c[a], q.den, N)
            up(a, axis) == IF a = axis THEN at(a) + 1 ELSE at(a)
            res == px_out.new_pixels
        IN  /\ (\A a \in 1..3 : OnNode(q.c[a], q.den, N)) =>
                  \A ch \in 1..3 :
                      res.num[ch] = res.den * StatedNode(parsed.table, N, at(1), at(2), at(3), ch)
            /\ \A axis \in 1..3 :
                  (/\ OnHalf(q.c[axis], q.den, N)
                   /\ \A a \in 1..3 \ {axis} : OnNode(q.c[a], q.den, N)) =>
                  \A ch \in 1..3 :
                      2 * res.num[ch] =
                          res.den * (StatedNode(parsed.table, N, at(1), at(2), at(3), ch)
                                     + StatedNode(parsed.table, N, up(1, axis), up(2, axis),
                                                  up(3, axis), ch))

\* ToneCube at the node (0, 0, 1), which holds data row 1 (0.5, 0, 0), and
\* half way from it to the node (1, 0, 1), which holds row 5 (1, 0, 2)
C23_Witness ==
    /\ LutReturned
    /\ px_arg.lines = ToneCube
    /\ \/ /\ px_fn = "apply_lut"
          /\ px_arg.pixel = <<0, 0, 255>>
          /\ px_out.new_pixels = [num |-> <<500, 0, 0>>, den |-> 1]
          /\ px_out.frame = <<127, 0, 0>>
       \/ /\ px_fn = "interp"
          /\ px_arg.point = [c |-> <<1, 0, 2>>, den |-> 2]
          /\ px_out.new_pixels = [num |-> <<1500, 0, 2000>>, den |-> 2]

(***************************************************************************)
(* SpecSessions: two conversations with one bot.  Every conversation has   *)
(* its own user_data; bot_data['downloads_path'] is one folder.  The       *)
(* handlers of one update run to their end before the next update is       *)
(* handled, so a step is one handler of one conversation.                  *)
(***************************************************************************)
Sessions == {1, 2}

MaxMedia == 3     \* media files downloaded in a run

\* user_data.get('music_path') of a conversation that has no music
NoPath == [kind |-> "none", n |-> 0]

\* user_data after context.user_data.clear(); state is the state the
\* conversation handler holds for the conversation
ClearedData ==
    [state |-> "MEDIA_TYPE", mode |-> "none", files |-> <<>>, processed |-> <<>>,
     final_files |-> <<>>, music_path |-> NoPath]

\* name = f"{now:%Y%m%d_%H%M%S}_{media_counter:03d}{ext}": the counter makes
\* the name of every download of the process a different one
MediaPath(n) == [kind |-> "media", n |-> n]

\* os.path.join(downloads_path, 'music.mp3')
MusicPath == [kind |-> "music", n |-> 0]

\* file.download_to_drive(path): the file is created, or written over
Written(folder, path, s) ==
    {f \in folder : f.path # path} \cup {[path |-> path, by |-> s]}

\* send_welcome_message: every file and directory of downloads_path is
\* removed, user_data is cleared, MEDIA_TYPE is returned
send_welcome_message(s) ==
    /\ downloads' = {}
    /\ user_data' = [user_data EXCEPT ![s] = ClearedData]

\* auth.start, the entry point (allow_reentry: from every state): after a
\* successful login send_welcome_message; a failed login ends the
\* conversation (the states of the code entry are collapsed into END)
start ==
    \E s \in Sessions :
        /\ \/ send_welcome_message(s)
           \/ /\ user_data' = [user_data EXCEPT ![s].state = "END"]
              /\ downloads' = downloads
        /\ UNCHANGED media_counter

\* common.cancel, the fallback of every state
cancel ==
    \E s \in Sessions :
        /\ user_data[s].state # "END"
        /\ send_welcome_message(s)
        /\ UNCHANGED media_counter

\* handle_media_type
handle_media_type ==
    \E s \in Sessions :
        /\ user_data[s].state = "MEDIA_TYPE"
        /\ \E mode \in {"album", "single"} :
              user_data' = [user_data EXCEPT ![s].mode = mode, ![s].files = <<>>,
                                             ![s].state = "RECEIVE_MEDIA"]
        /\ UNCHANGED <<downloads, media_counter>>

\* handle_media with a photo or video: download_media, files.append(path);
\* in single mode process_media follows at once
handle_media ==
    \E s \in Sessions :
        /\ user_data[s].state = "RECEIVE_MEDIA"
        /\ media_counter <= MaxMedia
        /\ downloads' = Written(downloads, MediaPath(media_counter), s)
        /\ media_counter' = media_counter + 1
        /\ LET files == Append(user_data[s].files, MediaPath(media_counter)) IN
           user_data' =
               IF user_data[s].mode = "single"
               THEN [user_data EXCEPT ![s].files = files, ![s].processed = files,
                                      ![s].state = "EDITING"]
               ELSE [user_data EXCEPT ![s].files = files]

\* process_media after 'Done' in album mode, the files being valid: fewer
\* than 2 files return States.START, which has no handler but the fallbacks
process_media ==
    \E s \in Sessions :
        /\ user_data[s].state = "RECEIVE_MEDIA"
        /\ user_data[s].mode = "album"
        /\ user_data' =
               IF Len(user_data[s].files) < 2
               THEN [user_data EXCEPT ![s].state = "START"]
               ELSE [user_data EXCEPT ![s].processed = user_data[s].files,
                                      ![s].state = "EDITING"]
        /\ UNCHANGED <<downloads, media_counter>>

\* The steps between process_media and the music and caption prompts
\* (confirmation, watermark, combination, effects) taken as one: they keep
\* the files of user_data and lead to RECEIVE_MUSIC or to CAPTION.
EditingSteps ==
    \E s \in Sessions :
        /\ user_data[s].state = "EDITING"
        /\ \E next \in {"RECEIVE_MUSIC", "CAPTION"} :
              user_data' = [user_data EXCEPT ![s].final_files = user_data[s].processed,
                                             ![s].state = next]
        /\ UNCHANGED <<downloads, media_counter>>

\* receive_music with an audio file: it is downloaded to music.mp3 of the
\* folder; the start-time and confirmation steps that follow are taken with it
receive_music ==
    \E s \in Sessions :
        /\ user_data[s].state = "RECEIVE_MUSIC"
        /\ downloads' = Written(downloads, MusicPath, s)
        /\ user_data' = [user_data EXCEPT ![s].music_path = MusicPath,
                                          ![s].state = "CAPTION"]
        /\ UNCHANGED media_counter

\* handle_caption_and_upload: whether the upload succeeds, fails or finds no
\* final files, it ends in send_welcome_message
handle_caption_and_upload ==
    \E s \in Sessions :
        /\ user_data[s].state = "CAPTION"
        /\ send_welcome_message(s)
        /\ UNCHANGED media_counter

InitSessions ==
    /\ ParseIdle
    /\ HandlerIdle
    /\ FrameIdle
    /\ DialogIdle
    /\ ConcIdle
    /\ PointIdle
    /\ engine = "image"
    /\ media = "b.jpg"
    /\ img0 = FlatFrame(1, 1)
    /\ effects = <<>>
    /\ idx = 0
    /\ pc = "idle"
    /\ img = FlatFrame(1, 1)
    /\ applied = <<>>
    /\ warnings = <<>>
    /\ exc = "none"
    /\ written = FALSE
    /\ cast_mode = "wrap"
    /\ resize_interp_ok = TRUE
    /\ quality = "final"
    /\ encoder = NoEncoder
    /\ downloads = {}
    /\ user_data = [s \in Sessions |-> [ClearedData EXCEPT !.state = "END"]]
    /\ media_counter = 1

sessOutside == <<parseVars, engineVars, handlerVars, frameVars, dialogVars, concVars, pointVars>>

NextSessions ==
    \/ start /\ UNCHANGED sessOutside
    \/ cancel /\ UNCHANGED sessOutside
    \/ handle_media_type /\ UNCHANGED sessOutside
    \/ handle_media /\ UNCHANGED sessOutside
    \/ process_media /\ UNCHANGED sessOutside
    \/ EditingSteps /\ UNCHANGED sessOutside
    \/ receive_music /\ UNCHANGED sessOutside
    \/ handle_caption_and_upload /\ UNCHANGED sessOutside

SpecSessions == InitSessions /\ [][NextSessions]_vars

\* the files a conversation references in its user_data
Referenced(s) ==
    {user_data[s].files[k] : k \in 1..Len(user_data[s].files)}
        \cup {user_data[s].processed[k] : k \in 1..Len(user_data[s].processed)}
        \cup {user_data[s].final_files[k] : k \in 1..Len(user_data[s].final_files)}
        \cup ({user_data[s].music_path} \ {NoPath})

\* C29: with two conversations interleaving, the files a conversation
\* references in its user_data stay on disk as it wrote them until that
\* conversation itself restarts, cancels or finishes: no handler of the other
\* conversation removes or overwrites them.
C29_SessionFilesStayOnDisk ==
    \A s \in Sessions : \A path \in Referenced(s) : [path |-> path, by |-> s] \in downloads
====
